---- MODULE Spec2Model ----
(***************************************************************************)
(* go-tps: the concurrent submission and asynchronous confirmation engine. *)
(*                                                                         *)
(* One episode (runSingleExecution, single mode): one goroutine per wallet *)
(* prepares a batch (PrepareBatchTransactions) and submits its requests    *)
(* one after the other, inserting a row per attempt and handing a          *)
(* ReceiptJob per accepted transfer to a pool of receiptWorkers, which     *)
(* update the row by tx hash.  The RPC endpoint and the SQLite store are   *)
(* the environment: every call the code checks the error of can fail.      *)
(***************************************************************************)
EXTENDS Integers, Sequences, FiniteSets, Bags, TLC

(***************************************************************************)
(* The configuration the model is explored with, and its bounds.           *)
(***************************************************************************)
WalletCount == 2
MaxTxPerWallet == 2
ReceiptWorkers == 2
\* The number of calls of one episode the environment may answer with
\* something other than plain success.
MaxFaults == 2

Wallets == 1..WalletCount
Workers == 1..ReceiptWorkers

\* The answers the endpoint can give.
StartNonces == {7}
GasPrices == {2}
SendErrors == {"insufficient funds"}

\* Go zero values.
NoErr == ""
NoHash == <<>>
NoTime == <<>>
NoConn == ""

GasLimit == 21000

\* The clock: its ticks per second (time.Second).
TicksPerSecond == 2
\* time.Minute, shortened to a few ticks to keep the runs short; it stays
\* longer than a second.
TicksPerMinute == 4
\* config.RunDurationMinutes of the loop-mode runs explored: 1 up to this.
MaxRunDurationMinutes == 1
\* The timeout handed to WaitForReceipt, in seconds (the ticker's period is
\* one second).
PollTimeoutSeconds == 4
\* How far the clock is followed.
MaxTime == (TicksPerSecond - 1) + MaxRunDurationMinutes * TicksPerMinute + TicksPerSecond
RPCURL == "http://localhost:8545"

VARIABLES
    txPerWallet,     \* config.TxPerWallet
    batchNumber,     \* runSingleExecution: batchNumber
    wpc,             \* per wallet goroutine: where it is
    startNonce,      \* per wallet: what GetNonce answered
    txRequests,      \* per wallet: the list PrepareBatchTransactions returned (<<>> is nil)
    prepErr,         \* per wallet: the err PrepareBatchTransactions returned
    txIdx,           \* per wallet: index (1-based) of the request of the loop
    result,          \* per wallet: the TxResult of the current request
    dbTx,            \* per wallet: the Transaction row being built
    transactions,    \* the store: the rows of table transactions (a bag; ids left out)
    receiptJobChan,  \* the buffered channel of ReceiptJobs
    chanClosed,      \* whether receiptJobChan is closed
    totalTransactions,   \* counter under mu
    totalFailed,     \* counter under mu
    opc,             \* the background goroutine that waits, closes and summarises
    summary,         \* the summary it printed
    rpc,             \* per worker: where it is
    job,             \* per worker: the job it holds
    conn,            \* per worker: the endpoint its txSender is connected to ("" is nil)
    currentRPCURL,   \* per worker: currentRPCURL
    openConns,       \* per worker: the clients it has dialled and not closed
    panicked,        \* a goroutine panicked: the process is gone
    faults,          \* the environment: calls not answered with plain success so far
    \* history, read by the properties only
    nonceCalls,      \* per wallet: GetNonce round trips
    gasPriceCalls,   \* per wallet: GetGasPrice round trips
    gasQuote,        \* per wallet: what GetGasPrice answered
    submitStarted,   \* per wallet: nonces whose submit call started, in order
    submitReturned,  \* per wallet: nonces whose submit call returned, in order
    sendOutcome,     \* per wallet: the error of each submit call, in order
    insertOutcome,   \* per wallet: whether the store accepted each insert, in order
    enqueued,        \* per wallet: the jobs it put on the channel, in order
    takeCount,       \* per tx hash: how often a job carrying it was received
    updCalls,        \* per tx hash: UpdateTransactionStatus calls issued
    jobEnd,          \* per tx hash: how the worker that took its job ended with it
    waitOutcome,     \* per tx hash: what the wait for its receipt returned
    rowUpdates,      \* per tx hash: how many times an UPDATE changed the episode's row carrying it
    \* the wait for a receipt, seen from inside (the confirmation of a worker)
    wsClient,        \* whether the shared push channel is there (nil otherwise)
    ledger,          \* per tx hash: the receipt the endpoint has for it, if any
    strat,           \* per worker and strategy: where the strategy is
    resolved,        \* per worker: who resolved (a strategy, the timeout), in order
    waitOut,         \* per worker: what the confirmation has resolved to
    \* main and runInLoopMode, on the clock
    runDurationMinutes,  \* config.RunDurationMinutes
    mnemonic,        \* config.Mnemonic ("" when none is supplied)
    walletsOfMain,   \* main: wallets, as DeriveWalletsFromMnemonic returned them
    now,             \* the clock, in ticks
    lpc,             \* runInLoopMode: where it is ("off": the run is not in loop mode)
    loopStart,       \* runInLoopMode: startTime
    endTime,         \* runInLoopMode: endTime
    iteration,       \* runInLoopMode: iteration
    iterationStart,  \* runInLoopMode: iterationStart
    wakeAt,          \* the instant from which time.Sleep may return
    executions,      \* the calls of runSingleExecution the loop has made, in order
    totalDuration,   \* runInLoopMode: totalDuration, as reported
    \* one call of WaitForReceipt
    ppc,             \* WaitForReceipt: where it is ("off": not called)
    pElapsed,        \* seconds since the call (the age of ctx)
    tickReady,       \* whether ticker.C holds a tick
    pollAnswers,     \* what TransactionReceipt answered, poll by poll
    pollRet,         \* what WaitForReceipt returned
    \* the episodes of one process, side by side
    episodes,        \* the calls of runSingleExecution: their goroutines and queue
    accepted,        \* the endpoint: transfers accepted per account
    mpc              \* main: where it is ("off": not followed)

cfgVars == <<txPerWallet, batchNumber>>
walletVars == <<wpc, startNonce, txRequests, prepErr, txIdx, result, dbTx>>
sharedVars == <<transactions, receiptJobChan, chanClosed, totalTransactions, totalFailed>>
orchVars == <<opc, summary>>
workerVars == <<rpc, job, conn, currentRPCURL, openConns>>
walletHist == <<nonceCalls, gasPriceCalls, gasQuote, submitStarted, submitReturned,
                sendOutcome, insertOutcome, enqueued>>
workerHist == <<takeCount, updCalls, jobEnd, waitOutcome>>
waitVars == <<wsClient, ledger, strat, resolved, waitOut>>
loopVars == <<runDurationMinutes, mnemonic, walletsOfMain, now, lpc, loopStart, endTime,
              iteration, iterationStart, wakeAt, executions, totalDuration>>
pollVars == <<ppc, pElapsed, tickReady, pollAnswers, pollRet>>
runVars == <<episodes, accepted, mpc>>
extraVars == <<pollVars, runVars>>
vars == <<cfgVars, walletVars, sharedVars, orchVars, workerVars, panicked, faults,
          walletHist, workerHist, rowUpdates, waitVars, loopVars, extraVars>>

----
(***************************************************************************)
(* transaction.go                                                          *)
(***************************************************************************)

\* The environment answers a call with an error only while it has faults left.
MayFail == faults < MaxFaults
Faulted(isErr) == faults' = IF isErr THEN faults + 1 ELSE faults

\* What GetNonce and GetGasPrice can return: (value, nil) or (zero, err).
NonceAnswers ==
    { [nonce |-> n, err |-> NoErr] : n \in StartNonces }
        \cup { [nonce |-> 0, err |-> "failed to get nonce"] }
GasPriceAnswers ==
    { [price |-> p, err |-> NoErr] : p \in GasPrices }
        \cup { [price |-> 0, err |-> "failed to get gas price"] }
\* The gas price before GetGasPrice has been called (nil).
NilGasPrice == [price |-> 0, err |-> NoErr]

\* The hash of the signed transfer: decided by its signer and its content.
TxHashOf(req) == <<req.Wallet, req.Nonce, req.GasPrice>>

\* The nonces and hashes the bounds allow.
Nonces == { s + i : s \in StartNonces \cup {0}, i \in 0..MaxTxPerWallet }
AllHashes == { <<w, n, p>> : w \in Wallets, n \in Nonces, p \in GasPrices \cup {0} }

\* BuildRequests counting the slots from 1: nonces startNonce + 1 ...
BuildRequests_OffByOne(wallet, sNonce, gPrice, count) ==
    [ i \in 1..count |->
        [ Wallet |-> wallet, Nonce |-> sNonce + i, GasPrice |-> gPrice,
          GasLimit |-> GasLimit ] ]

\* BuildRequests with a quote of its own for every request.
BuildRequests_QuotePerRequest(wallet, sNonce, gPrice, count) ==
    [ i \in 1..count |->
        [ Wallet |-> wallet, Nonce |-> sNonce + (i - 1), GasPrice |-> gPrice + (i - 1),
          GasLimit |-> GasLimit ] ]

\* PrepareBatchTransactions, the loop: count requests, nonces startNonce + i.
\* (uint64 arithmetic; the model's nonces stay far below 2^64.)
BuildRequests(wallet, sNonce, gPrice, count) ==
    [ i \in 1..count |->
        [ Wallet |-> wallet,
          Nonce |-> sNonce + (i - 1),
          GasPrice |-> gPrice,
          GasLimit |-> GasLimit ] ]

\* PrepareBatchTransactions going on with the nil gas price when GetGasPrice
\* failed.
PrepareBatchTransactions_IgnoreGasErr(wallet, nonceAns, gasAns, count) ==
    IF nonceAns.err # NoErr
    THEN [requests |-> <<>>, err |-> nonceAns.err]
    ELSE [requests |-> BuildRequests(wallet, nonceAns.nonce, gasAns.price, count),
          err |-> NoErr]

\* PrepareBatchTransactions: what it returns for the two answers of the
\* endpoint; the gas price is asked for only when the nonce was obtained.
PrepareBatchTransactions(wallet, nonceAns, gasAns, count) ==
    IF nonceAns.err # NoErr
    THEN [requests |-> <<>>, err |-> nonceAns.err]
    ELSE IF gasAns.err # NoErr
    THEN [requests |-> <<>>, err |-> gasAns.err]
    ELSE [requests |-> BuildRequests(wallet, nonceAns.nonce, gasAns.price, count),
          err |-> NoErr]

\* time.Now() read at a program point by a goroutine for one request or job:
\* an instant of its own.  A duration is the pair of its two instants.
TimeNow(point, who, what) == <<point, who, what>>
Elapsed(from, to) == <<from, to>>
ZeroTime == <<>>
ZeroDuration == <<>>

\* SendTransaction: the TxResult for a send started at startTime that
\* returned err at time t.
SendTransaction(req, startTime, t, err) ==
    [ TxHash |-> TxHashOf(req),
      Nonce |-> req.Nonce,
      Status |-> IF err # NoErr THEN "failed" ELSE "pending",
      SubmittedAt |-> startTime,
      ExecutionTime |-> Elapsed(startTime, t),
      Error |-> err ]

(***************************************************************************)
(* database.go                                                             *)
(***************************************************************************)

\* The INSERT executed twice.
InsertTransaction_Twice(table, tx) == table (+) SetToBag({tx}) (+) SetToBag({tx})

\* INSERT INTO transactions: one more row.
InsertTransaction(table, tx) == table (+) SetToBag({tx})

\* The rows an UPDATE by txHash matches, and how many they are.
RowsOf(table, txHash) == { r \in BagToSet(table) : r.TxHash = txHash }
RECURSIVE CopiesOfAll(_, _)
CopiesOfAll(table, rows) ==
    IF rows = {} THEN 0
    ELSE LET r == CHOOSE x \in rows : TRUE
         IN  CopiesIn(r, table) + CopiesOfAll(table, rows \ {r})

\* UPDATE transactions SET status = ?, confirmed_at = ?, execution_time = ?,
\* error = ? WHERE tx_hash = ?
UpdateTransactionStatus(table, txHash, status, confirmedAt, executionTime, errMsg) ==
    LET Set(r) == IF r.TxHash = txHash
                  THEN [ r EXCEPT !.Status = status,
                                  !.ConfirmedAt = confirmedAt,
                                  !.ExecutionTime = executionTime,
                                  !.Error = errMsg ]
                  ELSE r
        old == BagToSet(table)
    IN  [ n \in { Set(r) : r \in old } |->
            CopiesOfAll(table, { r \in old : Set(r) = n }) ]

(***************************************************************************)
(* main.go: runSingleExecution, one goroutine per wallet                   *)
(***************************************************************************)

BatchNumberAt(t) == <<"batch", t>>

ZeroResult ==
    [ TxHash |-> NoHash, Nonce |-> 0, Status |-> "", SubmittedAt |-> ZeroTime,
      ExecutionTime |-> ZeroDuration, Error |-> NoErr ]
ZeroTx ==
    [ BatchNumber |-> <<>>, WalletAddress |-> 0, TxHash |-> NoHash, Nonce |-> 0,
      GasPrice |-> 0, GasLimit |-> 0, Status |-> "", SubmittedAt |-> ZeroTime,
      ConfirmedAt |-> NoTime, ExecutionTime |-> ZeroDuration, Error |-> NoErr ]
NoJob ==
    [ RPCURL |-> "", WSClient |-> FALSE, TxHash |-> NoHash, Nonce |-> 0,
      StartTime |-> ZeroTime, WalletNum |-> 0 ]

\* The row built for a request and the result of its submit call.
NewDbTx(batch, w, req, res, err) ==
    [ BatchNumber |-> batch,
      WalletAddress |-> w,
      TxHash |-> IF err # NoErr THEN NoHash ELSE res.TxHash,
      Nonce |-> req.Nonce,
      GasPrice |-> req.GasPrice,
      GasLimit |-> req.GasLimit,
      Status |-> IF err # NoErr THEN "failed" ELSE "pending",
      SubmittedAt |-> res.SubmittedAt,
      ConfirmedAt |-> NoTime,
      ExecutionTime |-> res.ExecutionTime,
      Error |-> err ]

\* The job sent without the time the submit call started.
NewReceiptJob_NoStartTime(w, req, res) ==
    [ RPCURL |-> RPCURL,
      WSClient |-> wsClient,
      TxHash |-> res.TxHash,
      Nonce |-> req.Nonce,
      StartTime |-> ZeroTime,
      WalletNum |-> w ]

\* The job sent with a push channel whether or not main has one.
NewReceiptJob_PushAlways(w, req, res) ==
    [ RPCURL |-> RPCURL,
      WSClient |-> TRUE,
      TxHash |-> res.TxHash,
      Nonce |-> req.Nonce,
      StartTime |-> res.SubmittedAt,
      WalletNum |-> w ]

\* The job sent to the worker pool for an accepted transfer.
NewReceiptJob(w, req, res) ==
    [ RPCURL |-> RPCURL,
      WSClient |-> wsClient,
      TxHash |-> res.TxHash,
      Nonce |-> req.Nonce,
      StartTime |-> res.SubmittedAt,
      WalletNum |-> w ]

\* Both branches going on to send a job.
StepAfterInsert_AlwaysEnqueue(tx) == "enqueue"

\* if err != nil { ... } else { ... }: only the else branch sends a job.
StepAfterInsert(tx) == IF tx.Status = "failed" THEN "loop" ELSE "enqueue"

\* The loop submitting the same request again.
NextTxIdx_Same(i) == i

\* The index of the request the loop turns to after request i.
NextTxIdx(i) == i + 1

\* A channel with room for one wallet's jobs only.
ChanCapacity_PerWallet == txPerWallet

\* make(chan ReceiptJob, config.WalletCount*config.TxPerWallet)
ChanCapacity == WalletCount * txPerWallet

\* txSender.PrepareBatchTransactions, first round trip: GetNonce.
WalletGetNonce(w) ==
    /\ ~panicked
    /\ wpc[w] = "getNonce"
    /\ \E ans \in NonceAnswers :
        /\ ans.err # NoErr => MayFail
        /\ Faulted(ans.err # NoErr)
        /\ nonceCalls' = [nonceCalls EXCEPT ![w] = @ + 1]
        /\ startNonce' = [startNonce EXCEPT ![w] = ans]
        /\ IF ans.err # NoErr
           THEN LET r == PrepareBatchTransactions(w, ans, NilGasPrice, txPerWallet)
                IN  /\ txRequests' = [txRequests EXCEPT ![w] = r.requests]
                    /\ prepErr' = [prepErr EXCEPT ![w] = r.err]
                    /\ wpc' = [wpc EXCEPT ![w] = IF r.err # NoErr THEN "done" ELSE "loop"]
           ELSE /\ wpc' = [wpc EXCEPT ![w] = "getGasPrice"]
                /\ UNCHANGED <<txRequests, prepErr>>
    /\ UNCHANGED <<cfgVars, loopVars, extraVars, waitVars, txIdx, result, dbTx, sharedVars, orchVars, workerVars,
                   panicked, gasPriceCalls, gasQuote, submitStarted, submitReturned,
                   sendOutcome, insertOutcome, enqueued, workerHist, rowUpdates>>

\* txSender.PrepareBatchTransactions, second round trip: GetGasPrice; then
\* the requests are built and the caller checks err.
WalletGetGasPrice(w) ==
    /\ ~panicked
    /\ wpc[w] = "getGasPrice"
    /\ \E ans \in GasPriceAnswers :
        LET r == PrepareBatchTransactions(w, startNonce[w], ans, txPerWallet)
        IN  /\ ans.err # NoErr => MayFail
            /\ Faulted(ans.err # NoErr)
            /\ gasPriceCalls' = [gasPriceCalls EXCEPT ![w] = @ + 1]
            /\ gasQuote' = [gasQuote EXCEPT ![w] = ans]
            /\ txRequests' = [txRequests EXCEPT ![w] = r.requests]
            /\ prepErr' = [prepErr EXCEPT ![w] = r.err]
            /\ wpc' = [wpc EXCEPT ![w] = IF r.err # NoErr THEN "done" ELSE "loop"]
    /\ UNCHANGED <<cfgVars, loopVars, extraVars, waitVars, startNonce, txIdx, result, dbTx, sharedVars, orchVars,
                   workerVars, panicked, nonceCalls, submitStarted, submitReturned,
                   sendOutcome, insertOutcome, enqueued, workerHist, rowUpdates>>

\* for txIdx, req := range txRequests: CreateAndSendTransaction is called;
\* SendTransaction takes startTime and the request is on the wire.
WalletSendStart(w) ==
    /\ ~panicked
    /\ wpc[w] = "loop"
    /\ txIdx[w] <= Len(txRequests[w])
    /\ result' = [result EXCEPT ![w] =
                    [ZeroResult EXCEPT !.SubmittedAt = TimeNow("send", w, txIdx[w])]]
    /\ submitStarted' = [submitStarted EXCEPT ![w] = Append(@, txRequests[w][txIdx[w]].Nonce)]
    /\ wpc' = [wpc EXCEPT ![w] = "sending"]
    /\ UNCHANGED <<faults, cfgVars, loopVars, extraVars, waitVars, startNonce, txRequests, prepErr, txIdx, dbTx, sharedVars,
                   orchVars, workerVars, panicked, nonceCalls, gasPriceCalls, gasQuote,
                   submitReturned, sendOutcome, insertOutcome, enqueued, workerHist,
                   rowUpdates>>

\* The job sent before the record is inserted.
StepAfterSend_EnqueueFirst(w) == "enqueue"
\* Both branches call db.InsertTransaction before anything else is done
\* with the row.
StepAfterSend(w) == "insert"

\* The failure branch leaving totalFailed as it is.
FailedAfter_Uncounted(failed, err) == failed
\* if err != nil { ... totalFailed++ ... }
FailedAfter(failed, err) == IF err # NoErr THEN failed + 1 ELSE failed

\* CreateAndSendTransaction returns; the row is built; a failure is counted.
WalletSendReturn(w) ==
    /\ ~panicked
    /\ wpc[w] = "sending"
    /\ \E err \in {NoErr} \cup SendErrors :
        LET req == txRequests[w][txIdx[w]]
            res == SendTransaction(req, result[w].SubmittedAt,
                                   TimeNow("sent", w, txIdx[w]), err)
        IN  /\ err # NoErr => MayFail
            /\ Faulted(err # NoErr)
            /\ result' = [result EXCEPT ![w] = res]
            /\ dbTx' = [dbTx EXCEPT ![w] = NewDbTx(batchNumber, w, req, res, err)]
            /\ sendOutcome' = [sendOutcome EXCEPT ![w] = Append(@, err)]
            /\ submitReturned' = [submitReturned EXCEPT ![w] = Append(@, req.Nonce)]
            /\ totalFailed' = FailedAfter(totalFailed, err)
            /\ totalTransactions' =
                    IF err # NoErr THEN totalTransactions + 1 ELSE totalTransactions
    /\ wpc' = [wpc EXCEPT ![w] = StepAfterSend(w)]
    /\ UNCHANGED <<cfgVars, loopVars, extraVars, waitVars, startNonce, txRequests, prepErr, txIdx, transactions,
                   receiptJobChan, chanClosed, orchVars, workerVars, panicked, nonceCalls,
                   gasPriceCalls, gasQuote, submitStarted, insertOutcome, enqueued,
                   workerHist, rowUpdates>>

\* db.InsertTransaction(dbTx): the store inserts the row, or returns an error
\* that is only logged.  A failed request is done; an accepted one goes on to
\* its job.
InsertReturns(w) ==
    /\ \E ok \in BOOLEAN :
        /\ ~ok => MayFail
        /\ Faulted(~ok)
        /\ insertOutcome' = [insertOutcome EXCEPT ![w] = Append(@, ok)]
        /\ IF ok
           THEN /\ transactions' = InsertTransaction(transactions, dbTx[w])
           ELSE UNCHANGED transactions
    /\ wpc' = [wpc EXCEPT ![w] = StepAfterInsert(dbTx[w])]
    /\ txIdx' = [txIdx EXCEPT ![w] =
                    IF StepAfterInsert(dbTx[w]) = "loop" THEN NextTxIdx(@) ELSE @]
    /\ UNCHANGED <<cfgVars, loopVars, extraVars, waitVars, startNonce, txRequests, prepErr, result, dbTx,
                   receiptJobChan, chanClosed, totalTransactions, totalFailed, orchVars,
                   workerVars, panicked, nonceCalls, gasPriceCalls, gasQuote,
                   submitStarted, submitReturned, sendOutcome, enqueued, workerHist,
                   rowUpdates>>

\* db.InsertTransaction(dbTx), called by the wallet's goroutine itself.
WalletInsert(w) ==
    /\ ~panicked
    /\ wpc[w] = "insert"
    /\ InsertReturns(w)

\* totalTransactions++ and receiptJobChan <- ReceiptJob{...}: blocks while the
\* channel is full, panics on a closed channel.
WalletEnqueue(w) ==
    /\ ~panicked
    /\ wpc[w] = "enqueue"
    /\ chanClosed \/ Len(receiptJobChan) < ChanCapacity
    /\ totalTransactions' = totalTransactions + 1
    /\ IF chanClosed
       THEN /\ panicked' = TRUE
            /\ UNCHANGED <<receiptJobChan, enqueued, txIdx, wpc>>
       ELSE LET j == NewReceiptJob(w, txRequests[w][txIdx[w]], result[w])
            IN  /\ receiptJobChan' = Append(receiptJobChan, j)
                /\ enqueued' = [enqueued EXCEPT ![w] = Append(@, j)]
                /\ txIdx' = [txIdx EXCEPT ![w] = NextTxIdx(@)]
                /\ wpc' = [wpc EXCEPT ![w] = "loop"]
                /\ UNCHANGED panicked
    /\ UNCHANGED <<faults, cfgVars, loopVars, extraVars, waitVars, startNonce, txRequests, prepErr, result, dbTx,
                   transactions, chanClosed, totalFailed, orchVars, workerVars,
                   nonceCalls, gasPriceCalls, gasQuote, submitStarted, submitReturned,
                   sendOutcome, insertOutcome, workerHist, rowUpdates>>

\* After the loop: logInfo reads txRequests[0] and txRequests[len-1] (index
\* out of range on an empty list), then the deferred wgSubmit.Done().
WalletFinish(w) ==
    /\ ~panicked
    /\ wpc[w] = "loop"
    /\ txIdx[w] > Len(txRequests[w])
    /\ IF Len(txRequests[w]) = 0
       THEN /\ panicked' = TRUE
            /\ UNCHANGED wpc
       ELSE /\ wpc' = [wpc EXCEPT ![w] = "done"]
            /\ UNCHANGED panicked
    /\ UNCHANGED <<faults, cfgVars, loopVars, extraVars, waitVars, startNonce, txRequests, prepErr, txIdx, result, dbTx,
                   sharedVars, orchVars, workerVars, walletHist, workerHist, rowUpdates>>

(***************************************************************************)
(* main.go: the background goroutine of runSingleExecution                 *)
(***************************************************************************)

\* wgSubmit.Wait() returns once every wallet goroutine is done.
AllSubmitted == \A w \in Wallets : wpc[w] = "done"

\* wgSubmit.Wait(); close(receiptJobChan)
CloseJobChan ==
    /\ ~panicked
    /\ opc = "waiting"
    /\ AllSubmitted
    /\ IF chanClosed
       THEN /\ panicked' = TRUE
            /\ UNCHANGED <<chanClosed, opc>>
       ELSE /\ chanClosed' = TRUE
            /\ opc' = "closed"
            /\ UNCHANGED panicked
    /\ UNCHANGED <<faults, cfgVars, loopVars, extraVars, waitVars, walletVars, transactions, receiptJobChan,
                   totalTransactions, totalFailed, summary, workerVars, walletHist,
                   workerHist, rowUpdates>>

\* The execution summary: the counters read under mu (totalSuccessful is
\* never incremented).
PrintSummary ==
    /\ ~panicked
    /\ opc = "closed"
    /\ summary' = [ batch |-> batchNumber, submitted |-> totalTransactions,
                    successful |-> 0, failed |-> totalFailed ]
    /\ opc' = "done"
    /\ UNCHANGED <<faults, cfgVars, loopVars, extraVars, waitVars, walletVars, sharedVars, workerVars, panicked,
                   walletHist, workerHist, rowUpdates>>

(***************************************************************************)
(* main.go: receiptWorker, processReceiptJob                               *)
(***************************************************************************)

\* The wait has not returned.
NoOutcome == [status |-> -1, err |-> NoErr]
\* The two strategies of a confirmation.
Strategies == {"push", "poll"}

\* What the wait for a receipt can return: a receipt with status 1, a
\* receipt with another status, or an error (timeout).
WaitOutcomes ==
    { [status |-> 1, err |-> NoErr],
      [status |-> 0, err |-> NoErr],
      [status |-> 0, err |-> "timeout waiting for transaction receipt"] }

\* if txSender == nil || currentRPCURL != job.RPCURL
NeedsDial(k, j) == conn[k] = NoConn \/ currentRPCURL[k] # j.RPCURL

\* The worker returning after its first job instead of receiving again.
AfterJob_Return == "exited"

\* The end of the loop body, and continue: back to the receive of the range
\* loop.
AfterJob == "recv"

\* The job handed to a goroutine of its own (go processReceiptJob), the
\* worker back at the channel at once.
AfterReceive_Detached(k, j) == "recv"

\* The body of the range loop runs in the worker itself: it dials if it has
\* to and then calls processReceiptJob, and only then receives again.
AfterReceive(k, j) == IF NeedsDial(k, j) THEN "connect" ELSE "wait"

\* for job := range jobChan: one job is received by one worker, which
\* reuses its connection or turns to dialing a new one.
WorkerReceive(k) ==
    /\ ~panicked
    /\ rpc[k] = "recv"
    /\ receiptJobChan # <<>>
    /\ job' = [job EXCEPT ![k] = Head(receiptJobChan)]
    /\ receiptJobChan' = Tail(receiptJobChan)
    /\ takeCount' = [takeCount EXCEPT ![Head(receiptJobChan).TxHash] = @ + 1]
    /\ rpc' = [rpc EXCEPT ![k] = AfterReceive(k, Head(receiptJobChan))]
    /\ UNCHANGED <<faults, cfgVars, loopVars, extraVars, waitVars, walletVars, transactions, chanClosed, totalTransactions,
                   totalFailed, orchVars, conn, currentRPCURL, openConns, panicked, walletHist,
                   updCalls, jobEnd, waitOutcome, rowUpdates>>

\* NewTransactionSender: ethclient.Dial, then client.ChainID.  It returns the
\* sender, or nil and an error when the dial fails, or nil and an error when
\* the chain id cannot be read, the client it has dialled left as it is.
DialOutcomes == {"ok", "failed to connect to RPC", "failed to get chain ID"}
OpenAfterDial(open, out) ==
    IF out = "failed to connect to RPC" THEN open ELSE open + 1
\* The worker keeping a sender after a failed NewTransactionSender.
SenderAfterDial_Stale(out, url) == url
\* txSender, err = NewTransactionSender(job.RPCURL): nil on an error.
SenderAfterDial(out, url) == IF out = "ok" THEN url ELSE NoConn
\* if txSender != nil { txSender.Close() }
OpenAfterClose(open, sender) == IF sender # NoConn THEN open - 1 ELSE open

\* txSender.Close() of the old connection, then NewTransactionSender with
\* one of the outcomes outs: a failure leaves txSender nil and skips the job.
ConnectWith(k, outs) ==
    /\ ~panicked
    /\ rpc[k] = "connect"
    /\ \E out \in outs :
        /\ out # "ok" => MayFail
        /\ Faulted(out # "ok")
        /\ openConns' = [openConns EXCEPT ![k] =
                            OpenAfterDial(OpenAfterClose(@, conn[k]), out)]
        /\ IF out = "ok"
           THEN /\ conn' = [conn EXCEPT ![k] = SenderAfterDial(out, job[k].RPCURL)]
                /\ currentRPCURL' = [currentRPCURL EXCEPT ![k] = job[k].RPCURL]
                /\ rpc' = [rpc EXCEPT ![k] = "wait"]
                /\ UNCHANGED <<job, jobEnd>>
           ELSE /\ conn' = [conn EXCEPT ![k] = SenderAfterDial(out, job[k].RPCURL)]
                /\ rpc' = [rpc EXCEPT ![k] = AfterJob]
                /\ job' = [job EXCEPT ![k] = NoJob]
                /\ jobEnd' = [jobEnd EXCEPT ![job[k].TxHash] = "skipped"]
                /\ UNCHANGED currentRPCURL
    /\ UNCHANGED <<cfgVars, loopVars, extraVars, waitVars, walletVars, sharedVars, orchVars, panicked, walletHist,
                   takeCount, updCalls, waitOutcome, rowUpdates>>

\* The worker's dial as the episodes follow it: it succeeds or fails as a
\* whole.
WorkerConnect(k) == ConnectWith(k, {"ok", "failed to connect to RPC"})

\* The worker's dial with both ways NewTransactionSender can fail.
WorkerDial(k) == ConnectWith(k, DialOutcomes)

\* processReceiptJob giving up on an error of the wait without writing
\* anything.
ReceiptUpdates_NoUpdateOnError(j, out, t) ==
    IF out.err # NoErr
    THEN << >>
    ELSE IF out.status = 1
    THEN << [txHash |-> j.TxHash, status |-> "success", confirmedAt |-> <<t>>,
             execTime |-> Elapsed(j.StartTime, t), errMsg |-> NoErr] >>
    ELSE << [txHash |-> j.TxHash, status |-> "failed", confirmedAt |-> <<t>>,
             execTime |-> Elapsed(j.StartTime, t), errMsg |-> "transaction reverted"] >>

\* processReceiptJob without the test of receipt.Status: every receipt
\* counts as a success.
ReceiptUpdates_AnyReceiptSuccess(j, out, t) ==
    IF out.err # NoErr
    THEN << [txHash |-> j.TxHash, status |-> "failed", confirmedAt |-> NoTime,
             execTime |-> Elapsed(j.StartTime, t), errMsg |-> out.err] >>
    ELSE << [txHash |-> j.TxHash, status |-> "success", confirmedAt |-> <<t>>,
             execTime |-> Elapsed(j.StartTime, t), errMsg |-> NoErr] >>

\* processReceiptJob falling through from the error branch into the receipt
\* branch: a second update after the first.
ReceiptUpdates_FallThrough(j, out, t) ==
    IF out.err # NoErr
    THEN << [txHash |-> j.TxHash, status |-> "failed", confirmedAt |-> NoTime,
             execTime |-> Elapsed(j.StartTime, t), errMsg |-> out.err],
            [txHash |-> j.TxHash, status |-> "failed", confirmedAt |-> <<t>>,
             execTime |-> Elapsed(j.StartTime, t), errMsg |-> "transaction reverted"] >>
    ELSE IF out.status = 1
    THEN << [txHash |-> j.TxHash, status |-> "success", confirmedAt |-> <<t>>,
             execTime |-> Elapsed(j.StartTime, t), errMsg |-> NoErr] >>
    ELSE << [txHash |-> j.TxHash, status |-> "failed", confirmedAt |-> <<t>>,
             execTime |-> Elapsed(j.StartTime, t), errMsg |-> "transaction reverted"] >>

\* The UpdateTransactionStatus calls processReceiptJob makes for an outcome
\* of the wait, at time t: one, in whichever branch is taken.
ReceiptUpdates(j, out, t) ==
    IF out.err # NoErr
    THEN << [txHash |-> j.TxHash, status |-> "failed", confirmedAt |-> NoTime,
             execTime |-> Elapsed(j.StartTime, t), errMsg |-> out.err] >>
    ELSE IF out.status = 1
    THEN << [txHash |-> j.TxHash, status |-> "success", confirmedAt |-> <<t>>,
             execTime |-> Elapsed(j.StartTime, t), errMsg |-> NoErr] >>
    ELSE << [txHash |-> j.TxHash, status |-> "failed", confirmedAt |-> <<t>>,
             execTime |-> Elapsed(j.StartTime, t), errMsg |-> "transaction reverted"] >>

\* The table after a sequence of UpdateTransactionStatus calls.
RECURSIVE ApplyUpdates(_, _)
ApplyUpdates(table, calls) ==
    IF calls = <<>> THEN table
    ELSE LET c == Head(calls)
         IN  ApplyUpdates(
                 UpdateTransactionStatus(table, c.txHash, c.status, c.confirmedAt,
                                         c.execTime, c.errMsg),
                 Tail(calls))

\* processReceiptJob once the wait has returned out: the status is written;
\* the store applies the UPDATE (ok) or returns an error, which is dropped.
ProcessReceiptJob(k, out, ok) ==
    LET h == job[k].TxHash
        calls == ReceiptUpdates(job[k], out, TimeNow("confirmed", k, h))
    IN  /\ updCalls' = [updCalls EXCEPT ![h] = @ + Len(calls)]
        /\ jobEnd' = [jobEnd EXCEPT ![h] = IF ok THEN "applied" ELSE "rejected"]
        /\ waitOutcome' = [waitOutcome EXCEPT ![h] = out]
        /\ IF ok
           THEN /\ transactions' = ApplyUpdates(transactions, calls)
                /\ rowUpdates' =
                    [rowUpdates EXCEPT ![h] =
                        @ + Len(calls)
                              * CopiesOfAll(transactions,
                                    { r \in RowsOf(transactions, h) :
                                        r.BatchNumber = batchNumber })]
           ELSE UNCHANGED <<transactions, rowUpdates>>
        /\ rpc' = [rpc EXCEPT ![k] = AfterJob]
        /\ job' = [job EXCEPT ![k] = NoJob]

\* processReceiptJob, the wait taken as one step: it returns one of its
\* outcomes and the status is written.
WorkerProcess(k) ==
    /\ ~panicked
    /\ rpc[k] = "wait"
    /\ \E out \in WaitOutcomes, ok \in BOOLEAN :
        LET unhappy == (IF out.err # NoErr \/ out.status # 1 THEN 1 ELSE 0)
                           + (IF ok THEN 0 ELSE 1)
        IN  /\ faults + unhappy <= MaxFaults
            /\ faults' = faults + unhappy
            /\ ProcessReceiptJob(k, out, ok)
    /\ UNCHANGED <<cfgVars, loopVars, extraVars, waitVars, walletVars, receiptJobChan, chanClosed,
                   totalTransactions, totalFailed, orchVars, conn, currentRPCURL, openConns, panicked,
                   walletHist, takeCount>>

\* The range loop ends on a closed, drained channel; the connection is closed.
WorkerExit(k) ==
    /\ ~panicked
    /\ rpc[k] = "recv"
    /\ receiptJobChan = <<>>
    /\ chanClosed
    /\ conn' = [conn EXCEPT ![k] = NoConn]
    /\ openConns' = [openConns EXCEPT ![k] = OpenAfterClose(@, conn[k])]
    /\ rpc' = [rpc EXCEPT ![k] = "exited"]
    /\ UNCHANGED <<faults, cfgVars, loopVars, extraVars, waitVars, walletVars, sharedVars, orchVars, job, currentRPCURL,
                   panicked, walletHist, workerHist, rowUpdates>>

(***************************************************************************)
(* The episode                                                             *)
(***************************************************************************)

\* main: a mnemonic is generated when none is supplied, and the wallets are
\* derived from the mnemonic: the n-th generated mnemonic, the i-th wallet
\* of a mnemonic.
GenerateMnemonic(n) == <<"generated", n>>
DeriveWalletsFromMnemonic(m, count) == { <<m, i>> : i \in 1..count }

\* No call of WaitForReceipt is followed.
NoReturn == [receipt |-> "", err |-> NoErr]
PollOff ==
    /\ ppc = "off"
    /\ pElapsed = 0
    /\ tickReady = FALSE
    /\ pollAnswers = <<>>
    /\ pollRet = NoReturn

\* No call of runSingleExecution is followed goroutine by goroutine.
RunsOff ==
    /\ episodes = <<>>
    /\ accepted = [w \in Wallets |-> 0]
    /\ mpc = "off"

ExtraOff == PollOff /\ RunsOff

\* The run is not in loop mode: single mode, one call of runSingleExecution.
LoopOff ==
    /\ runDurationMinutes = 0
    /\ mnemonic = ""
    /\ walletsOfMain = DeriveWalletsFromMnemonic(GenerateMnemonic(1), WalletCount)
    /\ now = 0
    /\ lpc = "off"
    /\ loopStart = 0
    /\ endTime = 0
    /\ iteration = 0
    /\ iterationStart = 0
    /\ wakeAt = 0
    /\ executions = <<>>
    /\ totalDuration = 0

\* The state at the start of runSingleExecution, the batch number and the
\* store apart.
EpisodeFresh ==
    /\ txPerWallet \in 0..MaxTxPerWallet
    /\ wpc = [w \in Wallets |-> "getNonce"]
    /\ startNonce = [w \in Wallets |-> [nonce |-> 0, err |-> NoErr]]
    /\ txRequests = [w \in Wallets |-> <<>>]
    /\ prepErr = [w \in Wallets |-> NoErr]
    /\ txIdx = [w \in Wallets |-> 1]
    /\ result = [w \in Wallets |-> ZeroResult]
    /\ dbTx = [w \in Wallets |-> ZeroTx]
    /\ receiptJobChan = <<>>
    /\ chanClosed = FALSE
    /\ totalTransactions = 0
    /\ totalFailed = 0
    /\ opc = "waiting"
    /\ summary = <<>>
    /\ rpc = [k \in Workers |-> "recv"]
    /\ job = [k \in Workers |-> NoJob]
    /\ conn = [k \in Workers |-> NoConn]
    /\ currentRPCURL = [k \in Workers |-> ""]
    /\ openConns = [k \in Workers |-> 0]
    /\ panicked = FALSE
    /\ faults = 0
    /\ nonceCalls = [w \in Wallets |-> 0]
    /\ gasPriceCalls = [w \in Wallets |-> 0]
    /\ gasQuote = [w \in Wallets |-> NilGasPrice]
    /\ submitStarted = [w \in Wallets |-> <<>>]
    /\ submitReturned = [w \in Wallets |-> <<>>]
    /\ sendOutcome = [w \in Wallets |-> <<>>]
    /\ insertOutcome = [w \in Wallets |-> <<>>]
    /\ enqueued = [w \in Wallets |-> <<>>]
    /\ takeCount = [h \in AllHashes |-> 0]
    /\ updCalls = [h \in AllHashes |-> 0]
    /\ jobEnd = [h \in AllHashes |-> ""]
    /\ rowUpdates = [h \in AllHashes |-> 0]
    /\ waitOutcome = [h \in AllHashes |-> NoOutcome]
    /\ ledger = [h \in AllHashes |-> "none"]
    /\ strat = [k \in Workers |-> [s \in Strategies |-> "off"]]
    /\ resolved = [k \in Workers |-> <<>>]
    /\ waitOut = [k \in Workers |-> NoOutcome]

EpisodeIdle == ExtraOff /\ EpisodeFresh

InitEpisode ==
    /\ EpisodeIdle
    /\ LoopOff

\* An episode on a store just created.
Init ==
    /\ InitEpisode
    /\ wsClient = FALSE
    /\ batchNumber = BatchNumberAt(1)
    /\ transactions = EmptyBag

Next ==
    \/ \E w \in Wallets : WalletGetNonce(w)
    \/ \E w \in Wallets : WalletGetGasPrice(w)
    \/ \E w \in Wallets : WalletSendStart(w)
    \/ \E w \in Wallets : WalletSendReturn(w)
    \/ \E w \in Wallets : WalletInsert(w)
    \/ \E w \in Wallets : WalletEnqueue(w)
    \/ \E w \in Wallets : WalletFinish(w)
    \/ CloseJobChan
    \/ PrintSummary
    \/ \E k \in Workers : WorkerReceive(k)
    \/ \E k \in Workers : WorkerConnect(k)
    \/ \E k \in Workers : WorkerProcess(k)
    \/ \E k \in Workers : WorkerExit(k)

Spec == Init /\ [][Next]_vars

\* The goroutines of the submission side are scheduled while they can step
\* and their calls to the endpoint and to the store return; nothing is
\* assumed of the workers, which may never take a job.
FairSubmit ==
    /\ Spec
    /\ \A w \in Wallets :
        /\ WF_vars(WalletGetNonce(w))
        /\ WF_vars(WalletGetGasPrice(w))
        /\ WF_vars(WalletSendStart(w))
        /\ WF_vars(WalletSendReturn(w))
        /\ WF_vars(WalletInsert(w))
        /\ WF_vars(WalletEnqueue(w))
        /\ WF_vars(WalletFinish(w))
    /\ WF_vars(CloseJobChan)
    /\ WF_vars(PrintSummary)

\* The worker goroutines are scheduled while they can step, their dials
\* return and their waits are bounded; nothing is assumed of the submission
\* side.
FairWorkers ==
    /\ Spec
    /\ \A k \in Workers :
        /\ WF_vars(WorkerReceive(k))
        /\ WF_vars(WorkerConnect(k))
        /\ WF_vars(WorkerProcess(k))
        /\ WF_vars(WorkerExit(k))

(***************************************************************************)
(* The episode on a store that an earlier run has written to               *)
(***************************************************************************)

\* NewDatabase opens the file and creates the tables only IF NOT EXISTS: the
\* rows of an earlier run are still there.  With the same mnemonic, and an
\* endpoint that reports the same starting nonce and gas price as it did
\* then, the transfers signed are the same and so are their hashes.
EarlierHash == TxHashOf(BuildRequests(1, 7, 2, 1)[1])
EarlierRow(status) ==
    [ BatchNumber |-> BatchNumberAt(0),
      WalletAddress |-> 1,
      TxHash |-> EarlierHash,
      Nonce |-> 7,
      GasPrice |-> 2,
      GasLimit |-> GasLimit,
      Status |-> status,
      SubmittedAt |-> TimeNow("send", 0, 1),
      ConfirmedAt |-> IF status = "success"
                      THEN <<TimeNow("confirmed", 0, EarlierHash)>>
                      ELSE NoTime,
      ExecutionTime |-> Elapsed(TimeNow("send", 0, 1),
                                TimeNow("confirmed", 0, EarlierHash)),
      Error |-> IF status = "success" THEN NoErr
                ELSE "timeout waiting for transaction receipt" ]
EarlierStores == { SetToBag({EarlierRow(st)}) : st \in {"success", "failed"} }

InitRerun ==
    /\ InitEpisode
    /\ wsClient = FALSE
    /\ batchNumber = BatchNumberAt(1)
    /\ transactions \in EarlierStores

SpecRerun == InitRerun /\ [][Next]_vars

(***************************************************************************)
(* The confirmation of a job, from inside: WaitForReceiptWithSharedWebSocket*)
(* (called at main.go:604; its body is not among the sources, so the race  *)
(* of its two strategies follows the design of the confirmation engine)    *)
(***************************************************************************)

\* The outcome a receipt found on the endpoint resolves to.
OutcomeOf(receipt) ==
    [status |-> IF receipt = "success" THEN 1 ELSE 0, err |-> NoErr]
TimeoutOutcome == [status |-> 0, err |-> "timeout waiting for transaction receipt"]

\* A resolution arriving second replacing the first.
ResolveWins_Last(current) == TRUE

\* First resolution wins: a resolution is taken only while there is none.
ResolveWins(current) == current = NoOutcome

\* The endpoint gets the receipt of a transfer a worker waits for.
LedgerMine(k) ==
    /\ rpc[k] \in {"wait", "waiting"}
    /\ ledger[job[k].TxHash] = "none"
    /\ \E receipt \in {"success", "reverted"} :
        ledger' = [ledger EXCEPT ![job[k].TxHash] = receipt]
    /\ UNCHANGED <<cfgVars, loopVars, extraVars, walletVars, sharedVars, orchVars, workerVars, panicked, faults,
                   walletHist, workerHist, rowUpdates, wsClient, strat, resolved, waitOut>>

\* processReceiptJob calls the wait: the poll strategy starts, and the push
\* strategy too when the push channel is there.
WaitStart(k) ==
    /\ ~panicked
    /\ rpc[k] = "wait"
    /\ rpc' = [rpc EXCEPT ![k] = "waiting"]
    /\ strat' = [strat EXCEPT ![k] =
                    [s \in Strategies |->
                        IF s = "push" /\ ~job[k].WSClient THEN "off" ELSE "running"]]
    /\ resolved' = [resolved EXCEPT ![k] = <<>>]
    /\ waitOut' = [waitOut EXCEPT ![k] = NoOutcome]
    /\ UNCHANGED <<cfgVars, loopVars, extraVars, walletVars, sharedVars, orchVars, job, conn, currentRPCURL, openConns,
                   panicked, faults, walletHist, workerHist, rowUpdates, wsClient, ledger>>

\* A strategy's "get receipt" query (on a new-block notification, on a tick
\* of the interval) returns the receipt.
StrategyQuery(k, s) ==
    /\ ~panicked
    /\ rpc[k] = "waiting"
    /\ strat[k][s] = "running"
    /\ ledger[job[k].TxHash] # "none"
    /\ strat' = [strat EXCEPT ![k][s] = "found"]
    /\ UNCHANGED <<cfgVars, loopVars, extraVars, walletVars, sharedVars, orchVars, workerVars, panicked, faults,
                   walletHist, workerHist, rowUpdates, wsClient, ledger, resolved, waitOut>>

\* A strategy that has the receipt resolves: its result is taken if it is
\* the first, and discarded otherwise (also after the wait has returned).
StrategyResolve(k, s) ==
    /\ ~panicked
    /\ strat[k][s] = "found"
    /\ resolved' = [resolved EXCEPT ![k] = Append(@, s)]
    /\ IF rpc[k] = "waiting" /\ ResolveWins(waitOut[k])
       THEN /\ waitOut' = [waitOut EXCEPT ![k] = OutcomeOf(ledger[job[k].TxHash])]
            /\ strat' = [strat EXCEPT ![k][s] = "won"]
       ELSE /\ strat' = [strat EXCEPT ![k][s] = "discarded"]
            /\ UNCHANGED waitOut
    /\ UNCHANGED <<cfgVars, loopVars, extraVars, walletVars, sharedVars, orchVars, workerVars, panicked, faults,
                   walletHist, workerHist, rowUpdates, wsClient, ledger>>

\* The bound of the wait elapses with no resolution: it resolves to the
\* timeout error.
WaitTimeout(k) ==
    /\ ~panicked
    /\ rpc[k] = "waiting"
    /\ waitOut[k] = NoOutcome
    /\ waitOut' = [waitOut EXCEPT ![k] = TimeoutOutcome]
    /\ resolved' = [resolved EXCEPT ![k] = Append(@, "timeout")]
    /\ UNCHANGED <<cfgVars, loopVars, extraVars, walletVars, sharedVars, orchVars, workerVars, panicked, faults,
                   walletHist, workerHist, rowUpdates, wsClient, ledger, strat>>

\* The wait returns what it resolved to and processReceiptJob writes the
\* status.
WaitReturn(k) ==
    /\ ~panicked
    /\ rpc[k] = "waiting"
    /\ waitOut[k] # NoOutcome
    /\ \E ok \in BOOLEAN :
        /\ ~ok => MayFail
        /\ Faulted(~ok)
        /\ ProcessReceiptJob(k, waitOut[k], ok)
    /\ UNCHANGED <<cfgVars, loopVars, extraVars, walletVars, receiptJobChan, chanClosed, totalTransactions,
                   totalFailed, orchVars, conn, currentRPCURL, openConns, panicked, walletHist,
                   takeCount, waitVars>>

\* An episode of one transfer per wallet, with or without the push channel
\* (main dials it when a push endpoint is configured), the wait of every job
\* taken strategy by strategy.
InitWait ==
    /\ InitEpisode
    /\ txPerWallet = 1
    /\ wsClient \in BOOLEAN
    /\ batchNumber = BatchNumberAt(1)
    /\ transactions = EmptyBag

NextWait ==
    \/ \E w \in Wallets : WalletGetNonce(w)
    \/ \E w \in Wallets : WalletGetGasPrice(w)
    \/ \E w \in Wallets : WalletSendStart(w)
    \/ \E w \in Wallets : WalletSendReturn(w)
    \/ \E w \in Wallets : WalletInsert(w)
    \/ \E w \in Wallets : WalletEnqueue(w)
    \/ \E w \in Wallets : WalletFinish(w)
    \/ CloseJobChan
    \/ PrintSummary
    \/ \E k \in Workers : WorkerReceive(k)
    \/ \E k \in Workers : WorkerConnect(k)
    \/ \E k \in Workers : LedgerMine(k)
    \/ \E k \in Workers : WaitStart(k)
    \/ \E k \in Workers, s \in Strategies : StrategyQuery(k, s)
    \/ \E k \in Workers, s \in Strategies : StrategyResolve(k, s)
    \/ \E k \in Workers : WaitTimeout(k)
    \/ \E k \in Workers : WaitReturn(k)
    \/ \E k \in Workers : WorkerExit(k)

SpecWait == InitWait /\ [][NextWait]_vars

(***************************************************************************)
(* database.go on its own: the store under the calls of its callers        *)
(***************************************************************************)

\* The request of wallet w for slot i, its result and its job, as a run with
\* starting nonce 7 and gas price 2 builds them.
StoreReq(w, i) == BuildRequests(w, 7, 2, MaxTxPerWallet)[i]
StoreRes(w, i) ==
    SendTransaction(StoreReq(w, i), TimeNow("send", w, i), TimeNow("sent", w, i), NoErr)
StoreJob(w, i) == NewReceiptJob(w, StoreReq(w, i), StoreRes(w, i))

\* db.InsertTransaction of the pending row of an accepted transfer (once
\* per transfer).
StoreInsert(w, i) ==
    /\ RowsOf(transactions, TxHashOf(StoreReq(w, i))) = {}
    /\ transactions' =
         InsertTransaction(transactions,
             NewDbTx(batchNumber, w, StoreReq(w, i), StoreRes(w, i), NoErr))
    /\ UNCHANGED <<cfgVars, loopVars, extraVars, waitVars, walletVars, receiptJobChan, chanClosed, totalTransactions,
                   totalFailed, orchVars, workerVars, panicked, faults, walletHist,
                   workerHist, rowUpdates>>

\* db.UpdateTransactionStatus as processReceiptJob calls it, for any hash at
\* any time, whatever the status of the row.
StoreUpdate(w, i, k) ==
    /\ \E out \in WaitOutcomes :
        transactions' =
            ApplyUpdates(transactions,
                ReceiptUpdates(StoreJob(w, i), out,
                               TimeNow("confirmed", k, TxHashOf(StoreReq(w, i)))))
    /\ UNCHANGED <<cfgVars, loopVars, extraVars, waitVars, walletVars, receiptJobChan, chanClosed, totalTransactions,
                   totalFailed, orchVars, workerVars, panicked, faults, walletHist,
                   workerHist, rowUpdates>>

InitStore ==
    /\ InitEpisode
    /\ wsClient = FALSE
    /\ txPerWallet = MaxTxPerWallet
    /\ batchNumber = BatchNumberAt(1)
    /\ transactions = EmptyBag

NextStore ==
    \/ \E w \in Wallets, i \in 1..MaxTxPerWallet : StoreInsert(w, i)
    \/ \E w \in Wallets, i \in 1..MaxTxPerWallet, k \in Workers : StoreUpdate(w, i, k)

SpecStore == InitStore /\ [][NextStore]_vars

(***************************************************************************)
(* The confirmations of an episode whose submission phase is over          *)
(***************************************************************************)

\* The state of an episode of one transfer per wallet once every submit has
\* succeeded, every record is stored, the channel holds the jobs and is
\* closed and the summary is out, no worker having taken a job yet.
SubmittedJobs == [w \in Wallets |-> StoreJob(w, 1)]
SubmittedRow(w) == NewDbTx(BatchNumberAt(1), w, StoreReq(w, 1), StoreRes(w, 1), NoErr)
InitConfirm ==
    /\ ExtraOff
    /\ wsClient \in BOOLEAN
    /\ txPerWallet = 1
    /\ batchNumber = BatchNumberAt(1)
    /\ wpc = [w \in Wallets |-> "done"]
    /\ startNonce = [w \in Wallets |-> [nonce |-> 7, err |-> NoErr]]
    /\ txRequests = [w \in Wallets |-> BuildRequests(w, 7, 2, 1)]
    /\ prepErr = [w \in Wallets |-> NoErr]
    /\ txIdx = [w \in Wallets |-> 2]
    /\ result = [w \in Wallets |-> StoreRes(w, 1)]
    /\ dbTx = [w \in Wallets |-> SubmittedRow(w)]
    /\ transactions = SetToBag({ SubmittedRow(w) : w \in Wallets })
    /\ receiptJobChan \in { q \in [1..WalletCount -> { SubmittedJobs[w] : w \in Wallets }] :
                               \A a, b \in 1..WalletCount : a # b => q[a] # q[b] }
    /\ chanClosed = TRUE
    /\ totalTransactions = WalletCount
    /\ totalFailed = 0
    /\ opc = "done"
    /\ summary = [ batch |-> BatchNumberAt(1), submitted |-> WalletCount,
                   successful |-> 0, failed |-> 0 ]
    /\ rpc = [k \in Workers |-> "recv"]
    /\ job = [k \in Workers |-> NoJob]
    /\ conn = [k \in Workers |-> NoConn]
    /\ currentRPCURL = [k \in Workers |-> ""]
    /\ openConns = [k \in Workers |-> 0]
    /\ LoopOff
    /\ panicked = FALSE
    /\ faults = 0
    /\ nonceCalls = [w \in Wallets |-> 1]
    /\ gasPriceCalls = [w \in Wallets |-> 1]
    /\ gasQuote = [w \in Wallets |-> [price |-> 2, err |-> NoErr]]
    /\ submitStarted = [w \in Wallets |-> <<7>>]
    /\ submitReturned = [w \in Wallets |-> <<7>>]
    /\ sendOutcome = [w \in Wallets |-> <<NoErr>>]
    /\ insertOutcome = [w \in Wallets |-> <<TRUE>>]
    /\ enqueued = [w \in Wallets |-> <<SubmittedJobs[w]>>]
    /\ takeCount = [h \in AllHashes |-> 0]
    /\ updCalls = [h \in AllHashes |-> 0]
    /\ jobEnd = [h \in AllHashes |-> ""]
    /\ rowUpdates = [h \in AllHashes |-> 0]
    /\ waitOutcome = [h \in AllHashes |-> NoOutcome]
    /\ ledger = [h \in AllHashes |-> "none"]
    /\ strat = [k \in Workers |-> [s \in Strategies |-> "off"]]
    /\ resolved = [k \in Workers |-> <<>>]
    /\ waitOut = [k \in Workers |-> NoOutcome]

NextConfirm ==
    \/ \E k \in Workers : WorkerReceive(k)
    \/ \E k \in Workers : WorkerConnect(k)
    \/ \E k \in Workers : LedgerMine(k)
    \/ \E k \in Workers : WaitStart(k)
    \/ \E k \in Workers, s \in Strategies : StrategyQuery(k, s)
    \/ \E k \in Workers, s \in Strategies : StrategyResolve(k, s)
    \/ \E k \in Workers : WaitTimeout(k)
    \/ \E k \in Workers : WaitReturn(k)
    \/ \E k \in Workers : WorkerExit(k)

SpecConfirm == InitConfirm /\ [][NextConfirm]_vars

\* A worker's goroutine is scheduled while it can step; the wait is bounded
\* by its timeout, so a wait with no resolution times out.
FairConfirm ==
    /\ SpecConfirm
    /\ \A k \in Workers :
        /\ WF_vars(WorkerReceive(k))
        /\ WF_vars(WorkerConnect(k))
        /\ WF_vars(WaitStart(k))
        /\ WF_vars(WaitTimeout(k))
        /\ WF_vars(WaitReturn(k))
        /\ WF_vars(WorkerExit(k))

(***************************************************************************)
(* Episodes in which signing can fail                                      *)
(***************************************************************************)
\* What CreateAndSendTransaction returns with the error when building or
\* signing fails: no result.
NilResult == "nil"
SignErrors == {"failed to sign transaction"}

\* CreateAndSendTransaction returns (nil, err) from SignTransaction; the
\* caller builds dbTx from result.SubmittedAt and result.ExecutionTime
\* before it looks at err, and the nil result makes that a nil pointer
\* dereference: the process dies.
WalletSignFail(w) ==
    /\ ~panicked
    /\ wpc[w] = "sending"
    /\ MayFail
    /\ \E err \in SignErrors :
        /\ Faulted(TRUE)
        /\ result' = [result EXCEPT ![w] = NilResult]
        /\ sendOutcome' = [sendOutcome EXCEPT ![w] = Append(@, err)]
        /\ submitReturned' = [submitReturned EXCEPT ![w] =
                                Append(@, txRequests[w][txIdx[w]].Nonce)]
    /\ panicked' = TRUE
    /\ UNCHANGED <<cfgVars, loopVars, extraVars, waitVars, wpc, startNonce, txRequests, prepErr, txIdx,
                   dbTx, sharedVars, orchVars, workerVars, nonceCalls, gasPriceCalls,
                   gasQuote, submitStarted, insertOutcome, enqueued, workerHist,
                   rowUpdates>>

InitSign ==
    /\ Init
    /\ txPerWallet >= 1

NextSign ==
    \/ \E w \in Wallets : WalletGetNonce(w)
    \/ \E w \in Wallets : WalletGetGasPrice(w)
    \/ \E w \in Wallets : WalletSendStart(w)
    \/ \E w \in Wallets : WalletSendReturn(w)
    \/ \E w \in Wallets : WalletSignFail(w)
    \/ \E w \in Wallets : WalletInsert(w)
    \/ \E w \in Wallets : WalletEnqueue(w)
    \/ \E w \in Wallets : WalletFinish(w)
    \/ CloseJobChan
    \/ PrintSummary
    \/ \E k \in Workers : WorkerReceive(k)
    \/ \E k \in Workers : WorkerConnect(k)
    \/ \E k \in Workers : WorkerProcess(k)
    \/ \E k \in Workers : WorkerExit(k)

SpecSign == InitSign /\ [][NextSign]_vars

(***************************************************************************)
(* Episodes with the insert followed from its call to its return           *)
(***************************************************************************)
\* The wallet's goroutine enters db.InsertTransaction: no lock is taken and
\* nothing is handed to another goroutine.
WalletInsertCall(w) ==
    /\ ~panicked
    /\ wpc[w] = "insert"
    /\ wpc' = [wpc EXCEPT ![w] = "inserting"]
    /\ UNCHANGED <<faults, cfgVars, loopVars, extraVars, waitVars, startNonce, txRequests, prepErr,
                   txIdx, result, dbTx, sharedVars, orchVars, workerVars, panicked,
                   walletHist, workerHist, rowUpdates>>

\* d.db.Exec returns to the goroutine that called it.
WalletInsertReturn(w) ==
    /\ ~panicked
    /\ wpc[w] = "inserting"
    /\ InsertReturns(w)

InitInsert ==
    /\ Init
    /\ txPerWallet = 1

NextInsert ==
    \/ \E w \in Wallets : WalletGetNonce(w)
    \/ \E w \in Wallets : WalletGetGasPrice(w)
    \/ \E w \in Wallets : WalletSendStart(w)
    \/ \E w \in Wallets : WalletSendReturn(w)
    \/ \E w \in Wallets : WalletInsertCall(w)
    \/ \E w \in Wallets : WalletInsertReturn(w)
    \/ \E w \in Wallets : WalletEnqueue(w)
    \/ \E w \in Wallets : WalletFinish(w)
    \/ CloseJobChan
    \/ PrintSummary
    \/ \E k \in Workers : WorkerReceive(k)
    \/ \E k \in Workers : WorkerConnect(k)
    \/ \E k \in Workers : WorkerProcess(k)
    \/ \E k \in Workers : WorkerExit(k)

SpecInsert == InitInsert /\ [][NextInsert]_vars

(***************************************************************************)
(* Episodes in which the chain id can fail to be read after the dial       *)
(***************************************************************************)
InitDial ==
    /\ Init
    /\ txPerWallet = 1

NextDial ==
    \/ \E w \in Wallets : WalletGetNonce(w)
    \/ \E w \in Wallets : WalletGetGasPrice(w)
    \/ \E w \in Wallets : WalletSendStart(w)
    \/ \E w \in Wallets : WalletSendReturn(w)
    \/ \E w \in Wallets : WalletInsert(w)
    \/ \E w \in Wallets : WalletEnqueue(w)
    \/ \E w \in Wallets : WalletFinish(w)
    \/ CloseJobChan
    \/ PrintSummary
    \/ \E k \in Workers : WorkerReceive(k)
    \/ \E k \in Workers : WorkerDial(k)
    \/ \E k \in Workers : WorkerProcess(k)
    \/ \E k \in Workers : WorkerExit(k)

SpecDial == InitDial /\ [][NextDial]_vars

(***************************************************************************)
(* WaitForReceipt, the poller (transaction.go:167-193), one call of it     *)
(***************************************************************************)
\* What ts.client.TransactionReceipt can answer: the receipt, the error
\* "not found" while the transfer is not mined, or another error.
PollAnswers == {"receipt", "not found", "connection refused"}

\* if err.Error() != "not found" { continue }, and the end of the select
\* otherwise: both lead back to the top of the for loop.
AfterPollError(err) == [pc |-> "select", ret |-> NoReturn]

\* Everything the poller leaves alone.
pollRest == <<cfgVars, walletVars, sharedVars, orchVars, workerVars, panicked, faults,
              walletHist, workerHist, rowUpdates, waitVars, loopVars, runVars>>

\* A second passes: ctx ages, and the ticker puts a tick in its channel
\* (which holds one tick at most).
PollSecond ==
    /\ ppc = "select"
    /\ pElapsed < PollTimeoutSeconds
    /\ pElapsed' = pElapsed + 1
    /\ tickReady' = TRUE
    /\ UNCHANGED <<pollRest, ppc, pollAnswers, pollRet>>

\* case <-ctx.Done(): return nil, "timeout waiting for transaction receipt"
PollDeadline ==
    /\ ppc = "select"
    /\ pElapsed >= PollTimeoutSeconds
    /\ ppc' = "returned"
    /\ pollRet' = [receipt |-> "", err |-> "timeout waiting for transaction receipt"]
    /\ UNCHANGED <<pollRest, pElapsed, tickReady, pollAnswers>>

\* case <-ticker.C: one call of TransactionReceipt and what is done with
\* its answer.
PollTick ==
    /\ ppc = "select"
    /\ tickReady
    /\ tickReady' = FALSE
    /\ \E a \in PollAnswers :
        /\ pollAnswers' = Append(pollAnswers, a)
        /\ IF a = "receipt"
           THEN /\ ppc' = "returned"
                /\ pollRet' = [receipt |-> "receipt", err |-> NoErr]
           ELSE /\ ppc' = AfterPollError(a).pc
                /\ pollRet' = AfterPollError(a).ret
    /\ UNCHANGED <<pollRest, pElapsed>>

\* WaitForReceipt is called: the context with its timeout and the ticker
\* are created.
InitPoll ==
    /\ InitEpisode
    /\ txPerWallet = 1
    /\ wsClient = FALSE
    /\ batchNumber = BatchNumberAt(1)
    /\ transactions = EmptyBag

PollCall ==
    /\ ppc = "off"
    /\ ppc' = "select"
    /\ UNCHANGED <<pollRest, pElapsed, tickReady, pollAnswers, pollRet>>

NextPoll ==
    \/ PollCall
    \/ PollSecond
    \/ PollDeadline
    \/ PollTick

SpecPoll == InitPoll /\ [][NextPoll]_vars

(***************************************************************************)
(* Loop mode: runInLoopMode calls runSingleExecution until the deadline.   *)
(* The clock is read by time.Now(); time may pass between any two          *)
(* statements.  The wall clock is taken not to go backwards.  A call of    *)
(* runSingleExecution mints its batch number, starts the goroutines of     *)
(* the episode and returns; the records of the call are inserted by those  *)
(* goroutines, during the call or after it returned.                       *)
(***************************************************************************)
\* Everything of an episode that the loop itself leaves alone.
episodeRest == <<extraVars, txPerWallet, walletVars, receiptJobChan, chanClosed, totalTransactions,
                 totalFailed, orchVars, workerVars, panicked, faults, walletHist,
                 workerHist, rowUpdates, waitVars>>

\* time.Now().Format("20060102-150405"): the clock cut to whole seconds.
FormatSeconds_Minutes(t) == t \div TicksPerMinute
FormatSeconds(t) == t \div TicksPerSecond

\* fmt.Sprintf("batch-%s", time.Now().Format("20060102-150405"))
MintBatchNumber(t) == BatchNumberAt(FormatSeconds(t))

\* time.Duration(config.RunDurationMinutes) * time.Minute
DurationOf(minutes) == minutes * TicksPerMinute

\* minDuration - iterationElapsed when the iteration was shorter than
\* minDuration = 1 s, no sleep otherwise.
SleepFor_None(elapsed) == 0
SleepFor(elapsed) == IF elapsed < TicksPerSecond THEN TicksPerSecond - elapsed ELSE 0

\* for time.Now().Before(endTime)
LoopContinues_AtDeadline(t, end) == t <= end
LoopContinues(t, end) == t < end

\* time.Since(startTime) of the final report.
TotalDuration(t, start, end) == t - start

\* The wallets an iteration hands to runSingleExecution: the slice main
\* derived once, whatever the iteration and whether or not a mnemonic was
\* supplied.
WalletsOfIteration(n) == walletsOfMain

\* The clock advances (followed up to MaxTime, and to the end of a sleep).
Tick ==
    /\ now < MaxTime \/ (lpc = "sleep" /\ now < wakeAt)
    /\ now' = now + 1
    /\ UNCHANGED <<cfgVars, transactions, episodeRest, runDurationMinutes, mnemonic,
                   walletsOfMain, lpc, loopStart, endTime, iteration, iterationStart,
                   wakeAt, executions, totalDuration>>

\* startTime := time.Now(); endTime := startTime.Add(duration); iteration := 0
LoopBegin ==
    /\ lpc = "begin"
    /\ loopStart' = now
    /\ endTime' = now + DurationOf(runDurationMinutes)
    /\ iteration' = 0
    /\ lpc' = "cond"
    /\ UNCHANGED <<cfgVars, transactions, episodeRest, runDurationMinutes, mnemonic,
                   walletsOfMain, now, iterationStart, wakeAt, executions, totalDuration>>

\* The loop condition, and iteration++ when the body is entered.
LoopCond ==
    /\ lpc = "cond"
    /\ IF LoopContinues(now, endTime)
       THEN /\ iteration' = iteration + 1
            /\ lpc' = "iter"
       ELSE /\ lpc' = "report"
            /\ UNCHANGED iteration
    /\ UNCHANGED <<cfgVars, transactions, episodeRest, runDurationMinutes, mnemonic,
                   walletsOfMain, now, loopStart, endTime, iterationStart, wakeAt,
                   executions, totalDuration>>

\* iterationStart := time.Now()
LoopIterStart ==
    /\ lpc = "iter"
    /\ iterationStart' = now
    /\ lpc' = "call"
    /\ UNCHANGED <<cfgVars, transactions, episodeRest, runDurationMinutes, mnemonic,
                   walletsOfMain, now, loopStart, endTime, iteration, wakeAt,
                   executions, totalDuration>>

\* runSingleExecution(config, db, txSender, wsClient, wallets): the batch
\* number is minted on entry; the call returns once its goroutines run.
LoopCall ==
    /\ lpc = "call"
    /\ batchNumber' = MintBatchNumber(now)
    /\ executions' = Append(executions,
                            [ iterationStart |-> iterationStart,
                              started |-> now,
                              batch |-> MintBatchNumber(now),
                              wallets |-> WalletsOfIteration(iteration),
                              rows |-> {} ])
    /\ lpc' = "elapsed"
    /\ UNCHANGED <<transactions, episodeRest, runDurationMinutes, mnemonic,
                   walletsOfMain, now, loopStart, endTime, iteration, iterationStart,
                   wakeAt, totalDuration>>

\* A goroutine of call i inserts the record of its wallet's transfer, with
\* the batch number of its call.
ExecInsert(i, w) ==
    /\ i \in 1..Len(executions)
    /\ \A r \in executions[i].rows : r.WalletAddress # w
    /\ LET row == NewDbTx(executions[i].batch, w, StoreReq(w, 1), StoreRes(w, 1), NoErr)
       IN  /\ transactions' = InsertTransaction(transactions, row)
           /\ executions' = [executions EXCEPT ![i].rows = @ \cup {row}]
    /\ UNCHANGED <<cfgVars, episodeRest, runDurationMinutes, mnemonic, walletsOfMain,
                   now, lpc, loopStart, endTime, iteration, iterationStart, wakeAt,
                   totalDuration>>

\* iterationElapsed := time.Since(iterationStart), and the start of the
\* sleep when the iteration was shorter than one second.
LoopElapsed ==
    /\ lpc = "elapsed"
    /\ LET iterationElapsed == now - iterationStart
       IN  IF SleepFor(iterationElapsed) > 0
           THEN /\ wakeAt' = now + SleepFor(iterationElapsed)
                /\ lpc' = "sleep"
           ELSE /\ lpc' = "cond"
                /\ UNCHANGED wakeAt
    /\ UNCHANGED <<cfgVars, transactions, episodeRest, runDurationMinutes, mnemonic,
                   walletsOfMain, now, loopStart, endTime, iteration, iterationStart,
                   executions, totalDuration>>

\* time.Sleep returns: at least the requested duration has passed.
LoopWake ==
    /\ lpc = "sleep"
    /\ now >= wakeAt
    /\ lpc' = "cond"
    /\ UNCHANGED <<cfgVars, transactions, episodeRest, runDurationMinutes, mnemonic,
                   walletsOfMain, now, loopStart, endTime, iteration, iterationStart,
                   wakeAt, executions, totalDuration>>

\* totalDuration := time.Since(startTime), and the report.
LoopReport ==
    /\ lpc = "report"
    /\ totalDuration' = TotalDuration(now, loopStart, endTime)
    /\ lpc' = "finished"
    /\ UNCHANGED <<cfgVars, transactions, episodeRest, runDurationMinutes, mnemonic,
                   walletsOfMain, now, loopStart, endTime, iteration, iterationStart,
                   wakeAt, executions>>

\* main: the mnemonic is the supplied one, or one generated once; the
\* wallets are derived from it once, before the mode is chosen.
MainMnemonic(supplied) == IF supplied = "" THEN GenerateMnemonic(1) ELSE supplied

\* A loop-mode run (RUN_DURATION_MINUTES > 0) at the call of runInLoopMode.
InitLoop ==
    /\ EpisodeIdle
    /\ txPerWallet = 1
    /\ wsClient = FALSE
    /\ batchNumber = BatchNumberAt(0)
    /\ transactions = EmptyBag
    /\ runDurationMinutes \in 1..MaxRunDurationMinutes
    /\ mnemonic \in {"", "supplied"}
    /\ walletsOfMain = DeriveWalletsFromMnemonic(MainMnemonic(mnemonic), WalletCount)
    /\ now \in 0..(TicksPerSecond - 1)
    /\ lpc = "begin"
    /\ loopStart = 0
    /\ endTime = 0
    /\ iteration = 0
    /\ iterationStart = 0
    /\ wakeAt = 0
    /\ executions = <<>>
    /\ totalDuration = 0

LoopStep ==
    \/ LoopBegin
    \/ LoopCond
    \/ LoopIterStart
    \/ LoopCall
    \/ LoopElapsed
    \/ LoopWake
    \/ LoopReport

NextLoop ==
    \/ Tick
    \/ LoopBegin
    \/ LoopCond
    \/ LoopIterStart
    \/ LoopCall
    \/ LoopElapsed
    \/ LoopWake
    \/ LoopReport
    \/ \E i \in 1..Len(executions) : \E w \in Wallets : ExecInsert(i, w)

SpecLoop == InitLoop /\ [][NextLoop]_vars

\* The clock advances, and the loop's goroutine is scheduled while it can
\* step.
FairLoop ==
    /\ SpecLoop
    /\ WF_vars(Tick)
    /\ WF_vars(LoopStep)

(***************************************************************************)
(* main.go: the episodes of one process side by side                       *)
(*                                                                         *)
(* runSingleExecution starts a pool, launches one goroutine per wallet and *)
(* one that waits for them, and returns.  Each call is followed here with  *)
(* its own wallet goroutines, queue and workers; the endpoint reports as   *)
(* an account's pending nonce the number of its transfers it has accepted. *)
(***************************************************************************)

\* The calls of runSingleExecution a loop-mode run is followed for.
MaxEpisodes == 2

\* ReceiptTimeout: the 60 seconds processReceiptJob gives a wait, and the 60
\* seconds main sleeps before it returns.
ReceiptTimeout == TicksPerMinute
FinalSleep == TicksPerMinute

Episodes == 1..Len(episodes)

\* What the goroutines of the episodes leave alone, the clock apart.
runRest == <<cfgVars, walletVars, sharedVars, orchVars, workerVars, panicked, faults,
             walletHist, workerHist, rowUpdates, waitVars, pollVars,
             runDurationMinutes, mnemonic, walletsOfMain, lpc, loopStart, endTime,
             iteration, iterationStart, executions, totalDuration>>
clockVars == <<now, wakeAt>>

\* client.PendingNonceAt(ctx, wallet.Address)
PendingNonceAt(w) == accepted[w]

\* PrepareBatchTransactions: nonce := startNonce + uint64(i), i from 0
NonceOfRequest(start, i) == start + i

\* startReceiptWorkerPool(config.ReceiptWorkers, receiptJobChan, &receiptWG)
StartReceiptWorkerPool(workerCount) == [k \in 1..workerCount |-> [pc |-> "recv", age |-> 0]]

\* The state runSingleExecution leaves behind when it returns: a pool of
\* its own, an open queue of its own, one goroutine per wallet about to
\* prepare its batch.
NewEpisode ==
    [ loops   |-> [w \in Wallets |-> [pc |-> "prepare", start |-> 0, sent |-> 0]],
      queue   |-> 0,
      closed  |-> FALSE,
      workers |-> StartReceiptWorkerPool(ReceiptWorkers),
      processed |-> 0 ]

\* The process is running.
Alive == mpc # "exited"

\* runInLoopMode calls runSingleExecution again: nothing but the one-second
\* floor of an iteration separates two calls.
EpisodeCall ==
    /\ mpc = "loop"
    /\ Len(episodes) < MaxEpisodes
    /\ episodes' = Append(episodes, NewEpisode)
    /\ UNCHANGED <<runRest, clockVars, accepted, mpc>>

\* The goroutine of wallet w in call e: PrepareBatchTransactions fetches
\* the pending nonce and numbers the requests from it.
EpPrepare(e, w) ==
    /\ Alive
    /\ episodes[e].loops[w].pc = "prepare"
    /\ episodes' = [episodes EXCEPT ![e].loops[w] =
                        [pc |-> "send", start |-> PendingNonceAt(w), sent |-> 0]]
    /\ UNCHANGED <<runRest, clockVars, accepted, mpc>>

\* ... CreateAndSendTransaction of its next request: the endpoint accepts
\* the transfer whose nonce is the account's next one, and the job is sent
\* to the queue of the call; any other nonce is refused.
EpSend(e, w) ==
    /\ Alive
    /\ episodes[e].loops[w].pc = "send"
    /\ episodes[e].loops[w].sent < txPerWallet
    /\ LET l == episodes[e].loops[w]
           ok == NonceOfRequest(l.start, l.sent) = accepted[w]
       IN  /\ accepted' = IF ok THEN [accepted EXCEPT ![w] = @ + 1] ELSE accepted
           /\ episodes' = [episodes EXCEPT ![e].loops[w].sent = @ + 1,
                                           ![e].queue = IF ok THEN @ + 1 ELSE @]
    /\ UNCHANGED <<runRest, clockVars, mpc>>

\* ... the end of its loop and the deferred wgSubmit.Done().
EpLoopDone(e, w) ==
    /\ Alive
    /\ episodes[e].loops[w].pc = "send"
    /\ episodes[e].loops[w].sent = txPerWallet
    /\ episodes' = [episodes EXCEPT ![e].loops[w].pc = "done"]
    /\ UNCHANGED <<runRest, clockVars, accepted, mpc>>

\* The background goroutine of call e: wgSubmit.Wait(); close(receiptJobChan)
EpClose(e) ==
    /\ Alive
    /\ ~episodes[e].closed
    /\ \A w \in Wallets : episodes[e].loops[w].pc = "done"
    /\ episodes' = [episodes EXCEPT ![e].closed = TRUE]
    /\ UNCHANGED <<runRest, clockVars, accepted, mpc>>

\* Worker k of call e receives a job and starts its wait.
EpTake(e, k) ==
    /\ Alive
    /\ episodes[e].workers[k].pc = "recv"
    /\ episodes[e].queue > 0
    /\ episodes' = [episodes EXCEPT ![e].queue = @ - 1,
                                    ![e].workers[k] = [pc |-> "wait", age |-> 0]]
    /\ UNCHANGED <<runRest, clockVars, accepted, mpc>>

\* ... its wait returns (a receipt, or the timeout at the latest) and the
\* status update is written.
EpProcessed(e, k) ==
    /\ Alive
    /\ episodes[e].workers[k].pc = "wait"
    /\ episodes' = [episodes EXCEPT ![e].workers[k] = [pc |-> "recv", age |-> 0],
                                    ![e].processed = @ + 1]
    /\ UNCHANGED <<runRest, clockVars, accepted, mpc>>

\* ... the range over the closed and drained queue ends.
EpWorkerExit(e, k) ==
    /\ Alive
    /\ episodes[e].workers[k].pc = "recv"
    /\ episodes[e].queue = 0
    /\ episodes[e].closed
    /\ episodes' = [episodes EXCEPT ![e].workers[k].pc = "exited"]
    /\ UNCHANGED <<runRest, clockVars, accepted, mpc>>

\* A loop-mode run on the wallets of main, at the first call.
InitEpisodes ==
    /\ PollOff
    /\ EpisodeFresh
    /\ LoopOff
    /\ txPerWallet >= 1
    /\ wsClient = FALSE
    /\ batchNumber = BatchNumberAt(1)
    /\ transactions = EmptyBag
    /\ episodes = <<>>
    /\ accepted = [w \in Wallets |-> 0]
    /\ mpc = "loop"

NextEpisodes ==
    \/ EpisodeCall
    \/ \E e \in Episodes : \E w \in Wallets : EpPrepare(e, w)
    \/ \E e \in Episodes : \E w \in Wallets : EpSend(e, w)
    \/ \E e \in Episodes : \E w \in Wallets : EpLoopDone(e, w)
    \/ \E e \in Episodes : EpClose(e)
    \/ \E e \in Episodes : \E k \in Workers : EpTake(e, k)
    \/ \E e \in Episodes : \E k \in Workers : EpProcessed(e, k)
    \/ \E e \in Episodes : \E k \in Workers : EpWorkerExit(e, k)

SpecEpisodes == InitEpisodes /\ [][NextEpisodes]_vars


(***************************************************************************)
(* main.go: single mode up to the return of main                           *)
(*                                                                         *)
(* Time is charged to the waits for receipts and to the sleeps of main     *)
(* only: every other step of a goroutine is taken as soon as it can be.    *)
(***************************************************************************)

\* A goroutine of call e can take a step that is not the return of a wait.
CanStep(e) ==
    \/ \E w \in Wallets : episodes[e].loops[w].pc # "done"
    \/ ~episodes[e].closed
    \/ \E k \in Workers :
            /\ episodes[e].workers[k].pc = "recv"
            /\ episodes[e].queue > 0 \/ episodes[e].closed

\* A tick passes: the waits under way grow older, none beyond its timeout;
\* main sleeps no longer than it asked for.
RunTick ==
    /\ mpc \in {"floor", "sleep"}
    /\ now < wakeAt
    /\ \A e \in Episodes : ~CanStep(e)
    /\ \A e \in Episodes : \A k \in Workers :
            episodes[e].workers[k].pc = "wait" => episodes[e].workers[k].age < ReceiptTimeout
    /\ now' = now + 1
    /\ episodes' = [e \in Episodes |->
                        [episodes[e] EXCEPT !.workers =
                            [k \in Workers |->
                                IF @[k].pc = "wait" THEN [@[k] EXCEPT !.age = @ + 1] ELSE @[k]]]]
    /\ UNCHANGED <<runRest, wakeAt, accepted, mpc>>

\* executionStart := time.Now(); runSingleExecution(...), which returns at
\* once; the sleep up to the one-second minimum.
MainCall ==
    /\ mpc = "single"
    /\ episodes' = Append(episodes, NewEpisode)
    /\ wakeAt' = now + SleepFor(0)
    /\ mpc' = "floor"
    /\ UNCHANGED <<runRest, now, accepted>>

\* time.Sleep(60 * time.Second)
MainFinalSleep ==
    /\ mpc = "floor"
    /\ now >= wakeAt
    /\ wakeAt' = now + FinalSleep
    /\ mpc' = "sleep"
    /\ UNCHANGED <<runRest, now, episodes, accepted>>

\* The final summary is printed and main returns: the process exits, and
\* its goroutines with it.
MainReturn ==
    /\ mpc = "sleep"
    /\ now >= wakeAt
    /\ mpc' = "exited"
    /\ UNCHANGED <<runRest, clockVars, episodes, accepted>>

\* A single-mode run at the call of runSingleExecution.
InitExit ==
    /\ PollOff
    /\ EpisodeFresh
    /\ LoopOff
    /\ txPerWallet >= 1
    /\ wsClient = FALSE
    /\ batchNumber = BatchNumberAt(1)
    /\ transactions = EmptyBag
    /\ episodes = <<>>
    /\ accepted = [w \in Wallets |-> 0]
    /\ mpc = "single"

NextExit ==
    \/ RunTick
    \/ MainCall
    \/ MainFinalSleep
    \/ MainReturn
    \/ \E e \in Episodes : \E w \in Wallets : EpPrepare(e, w)
    \/ \E e \in Episodes : \E w \in Wallets : EpSend(e, w)
    \/ \E e \in Episodes : \E w \in Wallets : EpLoopDone(e, w)
    \/ \E e \in Episodes : EpClose(e)
    \/ \E e \in Episodes : \E k \in Workers : EpTake(e, k)
    \/ \E e \in Episodes : \E k \in Workers : EpProcessed(e, k)
    \/ \E e \in Episodes : \E k \in Workers : EpWorkerExit(e, k)

SpecExit == InitExit /\ [][NextExit]_vars


(***************************************************************************)
(* Properties                                                              *)
(***************************************************************************)

\* PrepareBatchTransactions has returned to the goroutine of wallet w.
Prepared(w) == wpc[w] \notin {"getNonce", "getGasPrice"}
\* ... with a nil error.
PrepareSucceeded(w) == Prepared(w) /\ prepErr[w] = NoErr
\* An answer of the endpoint to wallet w's fetches was an error.
FetchFailed(w) == startNonce[w].err # NoErr \/ gasQuote[w].err # NoErr

\* C1: sequence density.  When PrepareBatchTransactions succeeds for a wallet
\* with fetched starting nonce S and count N, it returns exactly N requests,
\* the i-th (0-based) carrying nonce S+i: the nonces assigned are exactly
\* S..S+N-1, without duplicate, gap or reordering.
C1_SequenceDensity ==
    \A w \in Wallets :
        PrepareSucceeded(w) =>
            LET S == startNonce[w].nonce
                N == txPerWallet
                reqs == txRequests[w]
            IN  /\ Len(reqs) = N
                /\ \A i \in 1..N : reqs[i].Nonce = S + (i - 1)
                /\ { reqs[i].Nonce : i \in 1..Len(reqs) } = S..(S + N - 1)
                /\ \A i, j \in 1..Len(reqs) : i < j => reqs[i].Nonce < reqs[j].Nonce

C1_Witness ==
    \E w \in Wallets :
        /\ PrepareSucceeded(w)
        /\ txPerWallet = MaxTxPerWallet
        /\ txPerWallet >= 2
        /\ startNonce[w].nonce = 7
        /\ txRequests[w][txPerWallet].Nonce = 7 + txPerWallet - 1

\* C2: one call of PrepareBatchTransactions asks the endpoint for the nonce
\* once and for the gas price once (never more, whatever the count; a call
\* that succeeds has made exactly one round trip of each kind), and every
\* request it returns carries that one gas price.
C2_OneNonceOneQuote ==
    \A w \in Wallets :
        /\ nonceCalls[w] <= 1
        /\ gasPriceCalls[w] <= 1
        /\ Prepared(w) => nonceCalls[w] = 1
        /\ PrepareSucceeded(w) =>
            /\ gasPriceCalls[w] = 1
            /\ \A i \in 1..Len(txRequests[w]) :
                txRequests[w][i].GasPrice = gasQuote[w].price

C2_Witness ==
    \E w \in Wallets :
        /\ PrepareSucceeded(w)
        /\ Len(txRequests[w]) >= 2
        /\ nonceCalls[w] = 1
        /\ gasPriceCalls[w] = 1
        /\ txRequests[w][2].GasPrice = gasQuote[w].price

\* The rows of the store that belong to wallet w.
RowsOfWallet(w) == { r \in BagToSet(transactions) : r.WalletAddress = w }

\* C3: when the nonce fetch or the gas price fetch fails, the call returns an
\* error and no request list, and for that wallet no transfer is submitted,
\* no row is inserted and no job is enqueued.
C3_FetchFailureNoSubmission ==
    \A w \in Wallets :
        (Prepared(w) /\ FetchFailed(w)) =>
            /\ prepErr[w] # NoErr
            /\ txRequests[w] = <<>>
            /\ wpc[w] = "done"
            /\ submitStarted[w] = <<>>
            /\ insertOutcome[w] = <<>>
            /\ RowsOfWallet(w) = {}
            /\ enqueued[w] = <<>>
            /\ \A i \in 1..Len(receiptJobChan) : receiptJobChan[i].WalletNum # w

C3_Witness ==
    \E w \in Wallets :
        /\ Prepared(w)
        /\ startNonce[w].err = NoErr
        /\ gasQuote[w].err # NoErr
        /\ txPerWallet >= 1
        /\ opc = "done"

\* C4: within one wallet the submit calls are strictly sequential and in
\* increasing nonce order: the call for S+i+1 starts only after the call for
\* S+i has returned (at most one call of a wallet is in flight); calls of
\* different wallets may interleave.
C4_SequentialSubmission ==
    \A w \in Wallets :
        LET st == submitStarted[w]
            rt == submitReturned[w]
        IN  /\ Len(rt) <= Len(st)
            /\ Len(st) <= Len(rt) + 1
            /\ \A i \in 1..Len(rt) : rt[i] = st[i]
            /\ \A i \in 1..Len(st) : st[i] = startNonce[w].nonce + (i - 1)
            /\ (wpc[w] = "sending") <=> (Len(st) = Len(rt) + 1)

C4_Witness ==
    \E w1, w2 \in Wallets :
        /\ w1 # w2
        /\ wpc[w1] = "sending"
        /\ wpc[w2] = "sending"
        /\ Len(submitStarted[w1]) = 2
        /\ Len(submitReturned[w1]) = 1

\* The i-th submit call of wallet w has returned.
Attempts(w) == 1..Len(sendOutcome[w])
ReqNonce(w, i) == txRequests[w][i].Nonce
\* The store has answered the insert of the i-th attempt of wallet w.
InsertDone(w, i) == i <= Len(insertOutcome[w])
\* The rows of this episode for the i-th attempt of wallet w, and their number.
RowsFor(w, i) ==
    { r \in BagToSet(transactions) :
        /\ r.BatchNumber = batchNumber
        /\ r.WalletAddress = w
        /\ r.Nonce = ReqNonce(w, i) }
RowCount(w, i) == CopiesOfAll(transactions, RowsFor(w, i))
\* The jobs wallet w has put on the channel for its i-th attempt.
JobsFor(w, i) == { k \in 1..Len(enqueued[w]) : enqueued[w][k].Nonce = ReqNonce(w, i) }
\* The loop of wallet w is past its i-th request.
LoopPast(w, i) == txIdx[w] > i
\* A row as the failure branch creates it for the error err.
IsFailedRow(r, err) == r.Status = "failed" /\ r.Error = err /\ r.TxHash = NoHash

\* What a failed submit call leaves apart from the number of its rows: rows
\* that are failed rows with the error text, no job, and a loop that goes on
\* to the end of the list.
FailedSubmitHandled(w, i) ==
    /\ \A r \in RowsFor(w, i) : IsFailedRow(r, sendOutcome[w][i])
    /\ JobsFor(w, i) = {}
    /\ \A k \in 1..Len(receiptJobChan) :
        ~(receiptJobChan[k].WalletNum = w /\ receiptJobChan[k].Nonce = ReqNonce(w, i))
    /\ LoopPast(w, i) => InsertDone(w, i)
    /\ wpc[w] = "done" => Len(submitReturned[w]) = Len(txRequests[w])

\* C5 as stated: when a submit call returns an error, exactly one record with
\* status failed and the error text is inserted for that request, no job is
\* ever enqueued for it, and the loop goes on to submit every remaining
\* request of the account.
C5_FailedSubmitExactlyOneRecord ==
    \A w \in Wallets : \A i \in Attempts(w) :
        sendOutcome[w][i] # NoErr =>
            /\ InsertDone(w, i) => RowCount(w, i) = 1
            /\ FailedSubmitHandled(w, i)

\* C5 amended: when a submit call returns an error, one record with status
\* failed and the error text is inserted for that request unless the store
\* rejects the insert (then none is, and only a warning is logged); in both
\* cases no job is ever enqueued for it and the loop goes on to submit every
\* remaining request of the account.
C5_FailedSubmitRecorded ==
    \A w \in Wallets : \A i \in Attempts(w) :
        sendOutcome[w][i] # NoErr =>
            /\ RowCount(w, i) =
                 IF InsertDone(w, i) /\ insertOutcome[w][i] THEN 1 ELSE 0
            /\ FailedSubmitHandled(w, i)

C5_Witness ==
    \E w \in Wallets :
        /\ Len(sendOutcome[w]) = 2
        /\ sendOutcome[w][1] # NoErr
        /\ sendOutcome[w][2] = NoErr
        /\ RowCount(w, 1) = 1
        /\ RowCount(w, 2) = 1
        /\ JobsFor(w, 1) = {}
        /\ JobsFor(w, 2) # {}
        /\ wpc[w] = "done"
        /\ opc = "done"

\* What a successful submit call leaves apart from the number of its rows:
\* rows created as pending with the hash of the transfer, and exactly one
\* job, sent once the row was handed to the store, carrying that hash and
\* the submission timestamp.
SuccessfulSubmitHandled(w, i) ==
    LET h == TxHashOf(txRequests[w][i])
    IN  /\ \A r \in RowsFor(w, i) :
            /\ r.TxHash = h
            /\ r.SubmittedAt = TimeNow("send", w, i)
            /\ r.Status = "pending" \/ jobEnd[h] = "applied"
        /\ Cardinality(JobsFor(w, i)) = IF LoopPast(w, i) THEN 1 ELSE 0
        /\ \A k \in JobsFor(w, i) :
            /\ enqueued[w][k].TxHash = h
            /\ enqueued[w][k].StartTime = TimeNow("send", w, i)
            /\ enqueued[w][k].WalletNum = w
        /\ LoopPast(w, i) => InsertDone(w, i)

\* Every job of wallet w is the job of a submit call that succeeded.
JobsOnlyForSuccess(w) ==
    \A k \in 1..Len(enqueued[w]) :
        \E i \in Attempts(w) :
            sendOutcome[w][i] = NoErr /\ enqueued[w][k].Nonce = ReqNonce(w, i)

\* C6 as stated: a job is enqueued if and only if the submit call succeeded;
\* every successfully submitted transfer gets one pending record carrying its
\* hash and exactly one job carrying the same hash and the submission
\* timestamp, enqueued exactly once.
C6_JobIffSubmittedOneRecord ==
    \A w \in Wallets :
        /\ JobsOnlyForSuccess(w)
        /\ \A i \in Attempts(w) :
            sendOutcome[w][i] = NoErr =>
                /\ InsertDone(w, i) => RowCount(w, i) = 1
                /\ SuccessfulSubmitHandled(w, i)

\* C6 amended: a job is enqueued if and only if the submit call succeeded;
\* every successfully submitted transfer gets exactly one job carrying its
\* hash and the submission timestamp, enqueued exactly once, and one pending
\* record carrying the same hash unless the store rejects the insert (then
\* the job is enqueued all the same and no record carries the hash).
C6_JobIffSubmitted ==
    \A w \in Wallets :
        /\ JobsOnlyForSuccess(w)
        /\ \A i \in Attempts(w) :
            sendOutcome[w][i] = NoErr =>
                /\ RowCount(w, i) =
                     IF InsertDone(w, i) /\ insertOutcome[w][i] THEN 1 ELSE 0
                /\ SuccessfulSubmitHandled(w, i)

C6_Witness ==
    \E w \in Wallets :
        /\ Len(sendOutcome[w]) >= 1
        /\ sendOutcome[w][1] = NoErr
        /\ LoopPast(w, 1)
        /\ RowCount(w, 1) = 1
        /\ \E r \in RowsFor(w, 1) : r.Status = "pending" /\ r.TxHash # NoHash
        /\ Cardinality(JobsFor(w, 1)) = 1
        /\ \E k \in 1..Len(receiptJobChan) :
            /\ receiptJobChan[k].TxHash = TxHashOf(txRequests[w][1])
            /\ receiptJobChan[k].StartTime = TimeNow("send", w, 1)

\* The sum of f over the wallets ws.
RECURSIVE SumOver(_, _)
SumOver(f, ws) ==
    IF ws = {} THEN 0
    ELSE LET w == CHOOSE x \in ws : TRUE
         IN  f[w] + SumOver(f, ws \ {w})

\* The submit calls made in the episode, and the inserts the store accepted.
SubmitCalls == SumOver([w \in Wallets |-> Len(submitStarted[w])], Wallets)
AcceptedInserts ==
    SumOver([w \in Wallets |->
                Cardinality({ i \in 1..Len(insertOutcome[w]) : insertOutcome[w][i] })],
            Wallets)
\* The records carrying the episode's batch id, and their number.
EpisodeRows == { r \in BagToSet(transactions) : r.BatchNumber = batchNumber }
EpisodeRowCount == CopiesOfAll(transactions, EpisodeRows)

\* Every record was created as pending with a hash or as failed without one.
RowsWellFormed ==
    \A r \in EpisodeRows :
        \/ r.TxHash # NoHash /\ (r.Status = "pending" \/ jobEnd[r.TxHash] = "applied")
        \/ r.TxHash = NoHash /\ r.Status = "failed" /\ r.Error # NoErr
\* No attempt has two records, and every record is the record of an attempt.
NoAttemptTwice ==
    /\ \A w \in Wallets : \A i \in 1..Len(txRequests[w]) : RowCount(w, i) <= 1
    /\ \A r \in EpisodeRows :
        \E w \in Wallets : \E i \in Attempts(w) : r \in RowsFor(w, i)

\* C7 as stated: exactly one record is inserted per attempted transfer; when
\* the submission phase of an episode has completed, the number of records
\* carrying the episode's batch id equals the number of submit calls made,
\* each record was created either as pending with a hash or as failed
\* without one, and no attempt has two records.
C7_ExactlyOneRecordPerAttempt ==
    /\ AllSubmitted => EpisodeRowCount = SubmitCalls
    /\ RowsWellFormed
    /\ NoAttemptTwice

\* C7 amended: at most one record is inserted per attempted transfer; when
\* the submission phase of an episode has completed, one insert has been
\* issued per submit call made and the number of records carrying the
\* episode's batch id equals the number of submit calls made minus the
\* inserts the store rejected; each record was created either as pending
\* with a hash or as failed without one, and no attempt has two records.
C7_OneRecordPerAcceptedInsert ==
    /\ EpisodeRowCount = AcceptedInserts
    /\ AllSubmitted =>
        \A w \in Wallets : Len(insertOutcome[w]) = Len(submitStarted[w])
    /\ AcceptedInserts <= SubmitCalls
    /\ RowsWellFormed
    /\ NoAttemptTwice

C7_Witness ==
    /\ AllSubmitted
    /\ SubmitCalls = WalletCount * MaxTxPerWallet
    /\ EpisodeRowCount = SubmitCalls
    /\ \E r \in EpisodeRows : r.TxHash = NoHash /\ r.Status = "failed"
    /\ \E r \in EpisodeRows : r.TxHash # NoHash /\ r.Status = "pending"

\* The status values, and the terminal ones.
Statuses == {"pending", "success", "failed"}
Terminal == {"success", "failed"}
\* What identifies a record in the table: its episode, account and nonce.
KeyOf(r) == <<r.BatchNumber, r.WalletAddress, r.Nonce>>

\* C8: record status state machine.  In every reachable state each record's
\* status is pending, success or failed; the only status changes that ever
\* occur are pending to success and pending to failed; once a record is
\* success or failed, no later step of any worker or producer changes its
\* status.
C8_StatusStateMachine ==
    /\ [](\A r \in BagToSet(transactions) : r.Status \in Statuses)
    /\ [][\A r \in BagToSet(transactions) :
            \A r2 \in BagToSet(transactions') :
                KeyOf(r2) = KeyOf(r) =>
                    \/ r2.Status = r.Status
                    \/ r.Status = "pending" /\ r2.Status \in Terminal]_vars

\* C9: idempotence of the terminal state at the store.  Calling
\* UpdateTransactionStatus for a hash whose record is already success or
\* failed is rejected or is a no-op: it leaves that record's status,
\* confirmation timestamp, latency and error unchanged.
C9_TerminalUpdateIsNoOp ==
    [][\A r \in BagToSet(transactions) :
          r.Status \in Terminal =>
              CopiesIn(r, transactions') = CopiesIn(r, transactions)]_vars

\* The hashes of the jobs enqueued in the episode.
EnqueuedHashes ==
    UNION { { enqueued[w][k].TxHash : k \in 1..Len(enqueued[w]) } : w \in Wallets }
\* The worker that took the job of hash h has called processReceiptJob for
\* it and the call has returned.
Processed(h) == jobEnd[h] \in {"applied", "rejected"}
\* The episode's rows carrying hash h.
EpisodeRowsOf(h) == { r \in EpisodeRows : r.TxHash = h }

\* A job is in one place only: on the channel once, or with one worker.
JobTakenByOneWorker ==
    /\ \A h \in AllHashes : takeCount[h] <= 1
    /\ \A h \in AllHashes : takeCount[h] = 1 => h \in EnqueuedHashes
    /\ \A k1, k2 \in Workers :
        (k1 # k2 /\ job[k1] # NoJob) => job[k1].TxHash # job[k2].TxHash
    /\ \A i \in 1..Len(receiptJobChan) :
        /\ takeCount[receiptJobChan[i].TxHash] = 0
        /\ \A j \in 1..Len(receiptJobChan) :
            receiptJobChan[i].TxHash = receiptJobChan[j].TxHash => i = j
\* The worker that processes a job issues exactly one status update for
\* its hash, and nobody else issues one.
OneUpdatePerProcessedJob ==
    \A h \in AllHashes :
        updCalls[h] = IF Processed(h) THEN 1 ELSE 0

\* C10 as stated: each enqueued job is taken from the queue by at most one
\* worker, and the worker that processes it issues exactly one status update
\* for the job's hash; so a record is mutated exactly once, by exactly one
\* worker.
C10_MutatedExactlyOnce ==
    /\ JobTakenByOneWorker
    /\ OneUpdatePerProcessedJob
    /\ \A h \in AllHashes :
        (Processed(h) /\ EpisodeRowsOf(h) # {}) => rowUpdates[h] = 1

\* C10 amended: each enqueued job is taken from the queue by at most one
\* worker, and the worker that processes it issues exactly one status update
\* for the job's hash; so the episode's record of that hash is mutated at
\* most once, by one worker: once when the store applies the update, not at
\* all when the store rejects it (the error is dropped) or when the worker
\* could not connect and skipped the job.
C10_MutatedAtMostOnce ==
    /\ JobTakenByOneWorker
    /\ OneUpdatePerProcessedJob
    /\ \A h \in AllHashes :
        rowUpdates[h] =
            IF jobEnd[h] = "applied" /\ EpisodeRowsOf(h) # {} THEN 1 ELSE 0

C10_Witness ==
    \E r1, r2 \in EpisodeRows :
        /\ r1.TxHash # r2.TxHash
        /\ r1.Status = "success"
        /\ r2.Status = "success"
        /\ r1.ConfirmedAt = <<TimeNow("confirmed", 1, r1.TxHash)>>
        /\ r2.ConfirmedAt = <<TimeNow("confirmed", 2, r2.TxHash)>>
        /\ rowUpdates[r1.TxHash] = 1
        /\ rowUpdates[r2.TxHash] = 1
        /\ takeCount[r1.TxHash] = 1
        /\ updCalls[r2.TxHash] = 1

\* The records of the store that carry hash h, earlier runs' included.
RecordsCarrying(h) == CopiesOfAll(transactions, RowsOf(transactions, h))

\* C11: operation-hash uniqueness.  No two records that carry a hash carry
\* the same one, so the status updates issued by different workers always
\* target disjoint records and an update by hash changes exactly one record.
C11_HashUnique ==
    /\ [](\A h \in AllHashes : RecordsCarrying(h) <= 1)
    /\ [][\A h \in AllHashes :
            (jobEnd[h] # "applied" /\ jobEnd'[h] = "applied") =>
                RecordsCarrying(h) = 1]_vars

\* What the wait of worker k has resolved to, by its first resolution.
WaitResult(k) ==
    IF Head(resolved[k]) = "timeout" THEN TimeoutOutcome
    ELSE OutcomeOf(ledger[job[k].TxHash])

\* The strategy whose result is taken is the one that resolved first.
FirstResolutionTaken ==
    \A k \in Workers :
        /\ \A s \in Strategies :
            strat[k][s] = "won" <=> (resolved[k] # <<>> /\ Head(resolved[k]) = s)
        /\ rpc[k] = "waiting" =>
            waitOut[k] = IF resolved[k] = <<>> THEN NoOutcome ELSE WaitResult(k)

\* The result of a strategy that resolves later is discarded.
LaterResolutionsDiscarded ==
    \A k \in Workers, s \in Strategies :
        strat[k][s] = "discarded" <=>
            \E i \in 2..Len(resolved[k]) : resolved[k][i] = s

\* A wait that returns hands its first resolution to one status update call.
ReturnsFirstResolution ==
    \A k \in Workers :
        (rpc[k] = "waiting" /\ rpc'[k] # "waiting") =>
            /\ waitOutcome'[job[k].TxHash] = WaitResult(k)
            /\ updCalls[job[k].TxHash] = 0
            /\ updCalls'[job[k].TxHash] = 1

\* C12 as stated: first-resolution-wins.  When both strategies find the same
\* receipt, the confirmation's result is that of the strategy that resolves
\* first, the other's result is discarded, and exactly one status update is
\* written for the record.
C12_FirstResolutionWinsOneWrite ==
    /\ [](FirstResolutionTaken /\ LaterResolutionsDiscarded)
    /\ [][ReturnsFirstResolution]_vars
    /\ [][\A k \in Workers :
            (rpc[k] = "waiting" /\ rpc'[k] # "waiting") =>
                rowUpdates'[job[k].TxHash] = 1]_vars

\* C12, amended: the confirmation's result is that of the first resolution,
\* later ones are discarded, and exactly one status update call is made,
\* which changes the one record of the hash when the record was stored and
\* the store applies the update, and no record otherwise.
C12_FirstResolutionWins ==
    /\ [](FirstResolutionTaken /\ LaterResolutionsDiscarded)
    /\ [][ReturnsFirstResolution]_vars
    /\ [][\A k \in Workers :
            (rpc[k] = "waiting" /\ rpc'[k] # "waiting") =>
                rowUpdates'[job[k].TxHash] =
                    IF jobEnd'[job[k].TxHash] = "applied"
                    THEN RecordsCarrying(job[k].TxHash) ELSE 0]_vars

\* Both strategies found the receipt; push resolved first and its result was
\* returned and written once, poll resolved second and was discarded.
C12_Witness ==
    \E k \in Workers, h \in AllHashes :
        /\ resolved[k] = <<"push", "poll">>
        /\ strat[k] = [s \in Strategies |-> IF s = "push" THEN "won" ELSE "discarded"]
        /\ rpc[k] = "recv"
        /\ jobEnd[h] = "applied"
        /\ waitOutcome[h] = waitOut[k]
        /\ waitOut[k] = OutcomeOf("success")
        /\ updCalls[h] = 1
        /\ rowUpdates[h] = 1
        /\ \A h2 \in AllHashes \ {h} : jobEnd[h2] = ""

\* Record r shows what processReceiptJob writes for the outcome out of the
\* wait: success and a confirmation time for a receipt of status 1, failed
\* with 'transaction reverted' and a confirmation time for another receipt,
\* failed with the error's text and no confirmation time for an error.
ShowsOutcome(r, out) ==
    IF out.err # NoErr
    THEN r.Status = "failed" /\ r.Error = out.err /\ r.ConfirmedAt = NoTime
    ELSE IF out.status = 1
    THEN r.Status = "success" /\ r.Error = NoErr /\ r.ConfirmedAt # NoTime
    ELSE r.Status = "failed" /\ r.Error = "transaction reverted" /\ r.ConfirmedAt # NoTime

\* A record is success only if the wait returned a receipt of status 1.
SuccessOnlyByReceipt ==
    \A r \in EpisodeRows :
        r.Status = "success" => waitOutcome[r.TxHash] = [status |-> 1, err |-> NoErr]

\* C13 as stated: outcome mapping of a processed job.  The record of a
\* processed job shows the outcome of its wait (success receipt: success
\* with a confirmation time; other receipt: failed, 'transaction reverted',
\* with a confirmation time; timeout or error: failed with that text and no
\* confirmation time), and a record is success only by a success receipt.
C13_OutcomeMapping ==
    /\ \A h \in AllHashes :
        Processed(h) => \A r \in EpisodeRowsOf(h) : ShowsOutcome(r, waitOutcome[h])
    /\ SuccessOnlyByReceipt

\* C13, amended: the mapping holds of the record of a processed job whose
\* update the store applied; when the store rejected the update the record
\* is still pending.  A record is success only by a success receipt.
C13_OutcomeMappingWhenApplied ==
    /\ \A h \in AllHashes : \A r \in EpisodeRowsOf(h) :
        /\ jobEnd[h] = "applied" => ShowsOutcome(r, waitOutcome[h])
        /\ jobEnd[h] # "applied" => r.Status = "pending"
    /\ SuccessOnlyByReceipt

\* One record confirmed by a success receipt, another failed by a reverted
\* one.
C13_Witness ==
    \E r1, r2 \in EpisodeRows :
        /\ r1.TxHash \in AllHashes /\ r2.TxHash \in AllHashes
        /\ jobEnd[r1.TxHash] = "applied" /\ jobEnd[r2.TxHash] = "applied"
        /\ waitOutcome[r1.TxHash] = [status |-> 1, err |-> NoErr]
        /\ r1.Status = "success" /\ r1.ConfirmedAt # NoTime
        /\ waitOutcome[r2.TxHash] = [status |-> 0, err |-> NoErr]
        /\ r2.Status = "failed" /\ r2.Error = "transaction reverted"
        /\ r2.ConfirmedAt # NoTime

\* A worker has started the confirmation of hash h and not ended it.
Confirming(h) ==
    \E k \in Workers : rpc[k] \in {"wait", "waiting"} /\ job[k].TxHash = h

\* Worker k is in processReceiptJob, its confirmation started and not ended.
InWait(k) == rpc[k] \in {"wait", "waiting"}

\* A confirmation ends by processReceiptJob returning, its one update issued.
EndsProcessed ==
    \A k \in Workers :
        (InWait(k) /\ ~InWait(k)') =>
            (jobEnd'[job[k].TxHash] \in {"applied", "rejected"}
                /\ updCalls'[job[k].TxHash] = 1)

\* One-shot: a hash is confirmed at most once, and a confirmation that has
\* ended is not taken up again.
OneShot ==
    /\ [](\A h \in AllHashes : takeCount[h] <= 1 /\ updCalls[h] <= 1)
    /\ [][\A h \in AllHashes : Processed(h) =>
            (jobEnd'[h] = jobEnd[h] /\ ~Confirming(h)')]_vars

\* A wait that resolved by its timeout returns the timeout error.
TimeoutReturned ==
    \A k \in Workers :
        (rpc[k] = "waiting" /\ rpc'[k] # "waiting" /\ Head(resolved[k]) = "timeout") =>
            waitOutcome'[job[k].TxHash] = TimeoutOutcome

InProgress == { h \in AllHashes : takeCount[h] >= 1 /\ jobEnd[h] = "" }

\* C15: backpressure bound.  For a pool of K workers, at no point of an
\* episode are more than K of its confirmations in progress, whatever the
\* number of accounts and of transfers per account.
C15_Backpressure ==
    /\ Cardinality(InProgress) <= ReceiptWorkers
    /\ InProgress = { job[k].TxHash : k \in { x \in Workers : rpc[x] \in {"connect", "wait"} } }

\* More jobs than workers: every worker is in a confirmation and jobs wait
\* on the channel.
C15_Witness ==
    /\ Cardinality(InProgress) = ReceiptWorkers
    /\ \A k \in Workers : rpc[k] = "wait"
    /\ Len(receiptJobChan) >= 2
    /\ WalletCount * txPerWallet > ReceiptWorkers

\* The jobs ever sent on the channel in the episode.
JobsEnqueued == SumOver([w \in Wallets |-> Len(enqueued[w])], Wallets)

\* C16: the job queue has capacity accounts x per-account count, the number
\* of jobs ever enqueued never exceeds it, and so a wallet about to enqueue
\* always finds room: the enqueue never blocks, whether or not any worker
\* takes jobs.
C16_EnqueueNeverBlocks ==
    /\ ChanCapacity = WalletCount * txPerWallet
    /\ JobsEnqueued <= ChanCapacity
    /\ Len(receiptJobChan) <= ChanCapacity
    /\ \A w \in Wallets :
        (wpc[w] = "enqueue" /\ ~panicked) =>
            (JobsEnqueued < ChanCapacity /\ ENABLED WalletEnqueue(w))

\* No worker has taken a job and the channel holds all of the episode's
\* jobs, as many as its capacity.
C16_Witness ==
    /\ \A k \in Workers : rpc[k] = "recv"
    /\ \A h \in AllHashes : takeCount[h] = 0
    /\ Len(receiptJobChan) = WalletCount * MaxTxPerWallet
    /\ JobsEnqueued = ChanCapacity
    /\ AllSubmitted

\* The queue is closed only with every wallet goroutine done, no send ever
\* finds it closed, and once closed it stays closed, is not closed again and
\* gets no further job.
ClosedAtMostOnceAfterSubmission ==
    /\ [](chanClosed => AllSubmitted)
    /\ [](\A w \in Wallets : wpc[w] = "enqueue" => ~chanClosed)
    /\ [](chanClosed => opc # "waiting")
    /\ [][chanClosed => (chanClosed' /\ enqueued' = enqueued /\ ~panicked'
                          /\ Len(receiptJobChan') <= Len(receiptJobChan))]_vars
    /\ [][(~chanClosed /\ chanClosed') => (AllSubmitted /\ opc = "waiting" /\ opc' = "closed")]_vars

\* C17: the job queue of an episode is closed exactly once, only after every
\* per-account submission loop has finished, and no job is ever enqueued on
\* a queue that is already closed.
C17_ClosedExactlyOnce ==
    /\ ClosedAtMostOnceAfterSubmission
    /\ <>chanClosed

SummaryAfterClose ==
    /\ [](summary # <<>> <=> opc = "done")
    /\ [](opc = "done" => (AllSubmitted /\ chanClosed))
    /\ [][(opc # "done" /\ opc' = "done") => (chanClosed /\ UNCHANGED workerVars)]_vars

\* C19: the episode summary is emitted only after every per-account
\* submission loop has completed and the queue has been closed, and without
\* waiting for any worker: the episode reaches the summary whether or not any
\* worker ever steps.
C19_SummaryWithoutWorkers ==
    /\ SummaryAfterClose
    /\ <>(opc = "done")

\* The same for the episodes with at least one transfer per wallet.
SummaryWithoutWorkersFromOne ==
    /\ SummaryAfterClose
    /\ (txPerWallet >= 1) => <>(opc = "done")

\* The wallets other than those whose fetch failed have submitted all of
\* their requests.
OthersSubmittedAll ==
    \A w \in Wallets :
        ~FetchFailed(w) => (PrepareSucceeded(w) /\ Len(submitReturned[w]) = txPerWallet)

\* A fetch failure of a wallet ends that wallet's loop and touches no other
\* wallet's.
OnlyThatLoopEnds ==
    \A w \in Wallets :
        (~FetchFailed(w) /\ FetchFailed(w)') =>
            /\ wpc'[w] = "done"
            /\ \A w2 \in Wallets \ {w} :
                /\ wpc'[w2] = wpc[w2]
                /\ txRequests'[w2] = txRequests[w2]
                /\ txIdx'[w2] = txIdx[w2]
                /\ prepErr'[w2] = prepErr[w2]

\* C20: account isolation.  When the sequence-number or fee-price fetch
\* fails for an account, only that account's submission loop ends; every
\* other account still submits all of its requests, and the episode still
\* closes its queue and emits its summary.
C20_AccountIsolation ==
    /\ [][OnlyThatLoopEnds]_vars
    /\ (\E w \in Wallets : FetchFailed(w)) ~>
            (OthersSubmittedAll /\ chanClosed /\ opc = "done")

\* The same for the episodes with at least one transfer per wallet.
AccountIsolationFromOne ==
    /\ [][OnlyThatLoopEnds]_vars
    /\ (txPerWallet >= 1 /\ \E w \in Wallets : FetchFailed(w)) ~>
            (OthersSubmittedAll /\ chanClosed /\ opc = "done")

(***************************************************************************)
(* Loop mode and batch numbers                                             *)
(***************************************************************************)
Calls == 1..Len(executions)

\* The records a call inserted carry the batch number the call minted.
RowsCarryBatchOfCall ==
    \A i \in Calls : \A r \in executions[i].rows : r.BatchNumber = executions[i].batch

\* C21: batch grouping.  Every record inserted by one call of
\* runSingleExecution carries the same batch id, the one minted at the
\* start of that call; two calls started at least one second apart carry
\* different batch ids.
C21_BatchGrouping ==
    /\ RowsCarryBatchOfCall
    /\ \A i, j \in Calls :
        (i < j /\ executions[j].started - executions[i].started >= TicksPerSecond)
            => executions[i].batch # executions[j].batch

\* Two calls started a second apart or more, each with all its records
\* inserted.
C21_Witness ==
    \E i, j \in Calls :
        /\ i < j
        /\ executions[j].started - executions[i].started >= TicksPerSecond
        /\ Cardinality(executions[i].rows) = WalletCount
        /\ Cardinality(executions[j].rows) = WalletCount

\* C22: in loop mode each iteration gets its own batch number: any two
\* iterations of one loop-mode run mint different batch ids.
C22_OwnBatchPerIteration ==
    \A i, j \in Calls : i < j => executions[i].batch # executions[j].batch

\* The starts of the iterations, in order (iterationStart of each call made).
IterationStartsApart ==
    \A i \in Calls : i + 1 \in Calls =>
        executions[i + 1].iterationStart - executions[i].iterationStart >= TicksPerSecond

\* An iteration is over (the loop is back at its condition, or past it) no
\* earlier than one second after its start.
IterationLastsASecond ==
    (lpc \in {"cond", "report", "finished"} /\ iteration >= 1)
        => now - iterationStart >= TicksPerSecond

CondGuardsBody ==
    (lpc = "cond" /\ lpc' # "cond") =>
        /\ lpc' = "iter" <=> now < endTime
        /\ lpc' = "report" <=> now >= endTime

\* At the report every iteration has made its call, and the reported
\* duration is the requested one or more.
ReportAfterDeadline ==
    lpc = "finished" =>
        /\ Len(executions) = iteration
        /\ now >= endTime
        /\ totalDuration >= DurationOf(runDurationMinutes)

\* C24 as stated: loop mode with a positive duration bound runs at least
\* one episode, starts no episode once the clock has reached the deadline,
\* terminates, and reports a total elapsed time that is at least the
\* requested bound.
C24_DeadlineLoop ==
    /\ [](lpc = "finished" => Len(executions) >= 1)
    /\ [](\A i \in Calls : executions[i].started < endTime)
    /\ [](lpc = "finished" => totalDuration >= DurationOf(runDurationMinutes))
    /\ <>(lpc = "finished")

\* C24, amended: the body runs after an evaluation of the loop condition
\* that found the clock before the deadline and never after one that found
\* it at or past the deadline (so there is at least one episode when the
\* first evaluation is before the deadline); the loop terminates and
\* reports a total elapsed time that is at least the requested bound.
C24_DeadlineLoopAtCondition ==
    /\ [][CondGuardsBody]_vars
    /\ []ReportAfterDeadline
    /\ <>(lpc = "finished")

\* The loop reported after at least two episodes.
C24_Witness ==
    /\ lpc = "finished"
    /\ Len(executions) >= 2
    /\ totalDuration >= DurationOf(runDurationMinutes)

\* C29: in loop mode each iteration generates new wallets: unless a
\* MNEMONIC is supplied, the set of accounts used by an iteration is
\* freshly derived for that iteration and is not the set used by the
\* previous iteration.
C29_FreshWalletsPerIteration ==
    mnemonic = "" =>
        \A i \in Calls : i + 1 \in Calls =>
            executions[i + 1].wallets # executions[i].wallets

(***************************************************************************)
(* The workers' connections                                                *)
(***************************************************************************)
\* C26: each worker holds at most one endpoint connection at any time: it
\* opens one lazily on its first job, reuses it for every later job with
\* the same endpoint URL, and closes its connection when it exits (none is
\* left open).
C26_OneConnectionPerWorker ==
    \A k \in Workers :
        /\ openConns[k] <= 1
        /\ takeCount = [h \in AllHashes |-> 0] => openConns[k] = 0
        /\ rpc[k] = "exited" => openConns[k] = 0

\* The jobs a worker skipped because it could not connect.
Skipped(h) == jobEnd[h] = "skipped"

\* A job is skipped in the step that fails to connect: no status update is
\* issued for it, the worker is left without a connection and goes back to
\* the channel.
SkipOnDialFailure ==
    \A k \in Workers :
        (rpc[k] = "connect" /\ rpc'[k] # "connect" /\ faults' # faults) =>
            /\ conn'[k] = NoConn
            /\ jobEnd'[job[k].TxHash] = "skipped"
            /\ updCalls'[job[k].TxHash] = 0
            /\ transactions' = transactions
            /\ rpc'[k] = "recv"

\* A worker without a connection that takes a job dials for it.
DialsAgain ==
    \A k \in Workers :
        (rpc[k] = "recv" /\ conn[k] = NoConn /\ rpc'[k] \notin {"recv", "exited"}) =>
            rpc'[k] = "connect"

\* C27: when a worker fails to establish its endpoint connection for a job,
\* it skips that job without issuing any status update (the record stays
\* pending), and it goes on to take the next job, for which it tries to
\* connect again.
C27_SkipOnConnectFailure ==
    /\ [][SkipOnDialFailure]_vars
    /\ [][DialsAgain]_vars
    /\ [](\A h \in AllHashes : Skipped(h) =>
            /\ updCalls[h] = 0
            /\ \A r \in RowsOf(transactions, h) : r.Status = "pending")

\* A worker skipped a job and is dialing for the next one it took.
C27_Witness ==
    \E k \in Workers : \E h \in AllHashes :
        /\ Skipped(h)
        /\ RowsOf(transactions, h) # {}
        /\ rpc[k] = "connect"
        /\ job[k].TxHash # h

(***************************************************************************)
(* The summary                                                             *)
(***************************************************************************)
\* The submit calls that returned an error.
FailedSubmits ==
    SumOver([w \in Wallets |->
                Cardinality({ i \in 1..Len(sendOutcome[w]) : sendOutcome[w][i] # NoErr })],
            Wallets)

\* C28: summary counts.  When the episode summary is emitted, the reported
\* submitted count equals the number of submit calls made in the episode
\* (failed ones included), the reported failed count equals the number of
\* submit calls that returned an error, and submitted minus failed equals
\* the number of confirmation jobs enqueued.
C28_SummaryCounts ==
    opc = "done" =>
        /\ summary.submitted = SubmitCalls
        /\ summary.failed = FailedSubmits
        /\ summary.submitted - summary.failed = JobsEnqueued

\* A summary emitted after failed and accepted submit calls.
C28_Witness ==
    /\ opc = "done"
    /\ summary.failed >= 1
    /\ summary.submitted >= 3
    /\ JobsEnqueued >= 1

(***************************************************************************)
(* Submission failures                                                     *)
(***************************************************************************)
\* The submit calls of a wallet that returned an error of any kind.
FailedCalls(w) == { i \in 1..Len(sendOutcome[w]) : sendOutcome[w][i] # NoErr }

\* C30: a submission failure of any kind is reported, not fatal: also when
\* CreateAndSendTransaction fails before the network write (signing fails
\* and no result is returned) the orchestrator does not fault, and once the
\* wallet has gone on to a later request or finished, the failed call has
\* its failed record unless the store refused the insert.
C30_FailureNotFatal ==
    \A w \in Wallets : \A i \in FailedCalls(w) :
        /\ ~panicked
        /\ (InsertDone(w, i) /\ insertOutcome[w][i]) => RowCount(w, i) = 1

(***************************************************************************)
(* The writers of the store                                                *)
(***************************************************************************)
\* The wallets whose goroutine is inside db.InsertTransaction.
Inserting == { w \in Wallets : wpc[w] = "inserting" }

\* C25: single-writer inserts.  Initial record inserts are serialized
\* through one writer, so at no point are two initial inserts into the
\* store in progress at the same time, however many accounts submit
\* concurrently.
C25_SingleWriter == Cardinality(Inserting) <= 1

(***************************************************************************)
(* The push channel                                                        *)
(***************************************************************************)
\* The wait of worker k runs the poll strategy only.
PollAlone(k) ==
    /\ strat[k]["push"] = "off"
    /\ \A i \in 1..Len(resolved[k]) : resolved[k][i] # "push"

\* Every job, queued or held by a worker, was handed an absent push channel.
JobsWithoutPush ==
    /\ \A i \in 1..Len(receiptJobChan) : ~receiptJobChan[i].WSClient
    /\ \A k \in Workers : ~job[k].WSClient

\* The wait of a job returns a receipt's outcome as the endpoint has it, or
\* the timeout.
ReturnsAsEndpointDictates ==
    \A k \in Workers :
        (rpc[k] = "waiting" /\ rpc'[k] # "waiting") =>
            \/ waitOut[k] = TimeoutOutcome
            \/ /\ ledger[job[k].TxHash] # "none"
               /\ waitOut[k] = OutcomeOf(ledger[job[k].TxHash])

\* C31: push channel unavailable.  When main has no push channel (no push
\* URL configured, or the dial failed at startup) the episode runs all the
\* same; every confirmation job is handed an absent push channel and is
\* resolved by the poll strategy alone, to success, failed-reverted or
\* failed-timeout as the endpoint dictates.
C31_PushUnavailable ==
    /\ [](~wsClient => JobsWithoutPush)
    /\ [](~wsClient => \A k \in Workers : rpc[k] = "waiting" => PollAlone(k))
    /\ [][~wsClient => ReturnsAsEndpointDictates]_vars

\* Without a push channel, one job resolved to success and another to the
\* timeout, and the summary was printed.
C31_Witness ==
    /\ ~wsClient
    /\ opc = "done"
    /\ \E h1, h2 \in AllHashes :
        /\ waitOutcome[h1] = OutcomeOf("success")
        /\ waitOutcome[h2] = TimeoutOutcome


(***************************************************************************)
(* The poller                                                              *)
(***************************************************************************)
\* The answers that are errors other than "not found".
OtherErrors == PollAnswers \ {"receipt", "not found"}

\* C32: WaitForReceipt returns the receipt on the first poll that
\* succeeds, keeps polling while the endpoint answers "not found", returns
\* to the caller an endpoint error that is not "not found" instead of
\* polling on, and returns a timeout error when the timeout elapses
\* without a receipt.
C32_PollerReturns ==
    \A i \in 1..Len(pollAnswers) :
        /\ pollAnswers[i] = "receipt" =>
                (i = Len(pollAnswers) /\ ppc = "returned" /\ pollRet.receipt = "receipt")
        /\ pollAnswers[i] \in OtherErrors =>
                (i = Len(pollAnswers) /\ ppc = "returned" /\ pollRet.err = pollAnswers[i])
        /\ (ppc = "returned" /\ pollAnswers[Len(pollAnswers)] = "not found") =>
                (pElapsed >= PollTimeoutSeconds /\ pollRet.err # NoErr)

(***************************************************************************)
(* The record after a timeout                                              *)
(***************************************************************************)
\* The hashes whose confirmation gave up on its timeout.
TimedOut(h) == waitOutcome[h] = TimeoutOutcome

\* C33 as stated: after a confirmation gives up on its timeout, the record
\* is left pending forever.
C33_TimeoutLeavesPending ==
    \A h \in AllHashes :
        TimedOut(h) => \A r \in EpisodeRowsOf(h) : r.Status = "pending"

\* C33, amended: a confirmation that gives up on its timeout issues one
\* update of its record to failed with the timeout error; the record is
\* failed from then on when the store applied the update, and is left
\* pending forever only when the store rejected it: no later step touches
\* the record.
C33_TimeoutWritesFailed ==
    /\ [](\A h \in AllHashes : TimedOut(h) =>
            /\ updCalls[h] = 1
            /\ jobEnd[h] \in {"applied", "rejected"}
            /\ \A r \in EpisodeRowsOf(h) :
                /\ jobEnd[h] = "applied" =>
                    (r.Status = "failed" /\ r.Error = TimeoutOutcome.err)
                /\ jobEnd[h] = "rejected" => r.Status = "pending")
    /\ [][\A h \in AllHashes : TimedOut(h) =>
            (EpisodeRowsOf(h))' = EpisodeRowsOf(h)]_vars

\* A confirmation timed out and its record is failed with the timeout error,
\* the worker back at the channel.
C33_Witness ==
    \E h \in AllHashes :
        /\ TimedOut(h)
        /\ jobEnd[h] = "applied"
        /\ \E r \in EpisodeRowsOf(h) :
            r.Status = "failed" /\ r.Error = TimeoutOutcome.err
        /\ \A k \in Workers : rpc[k] \in {"recv", "exited"}

(***************************************************************************)
(* Insert before update                                                    *)
(***************************************************************************)
\* The update of hash h is applied to the store in this step.
UpdateApplied(h) == jobEnd[h] # "applied" /\ jobEnd'[h] = "applied"

\* The store applied the insert of the pending record of the transfer whose
\* job carries hash h.
InsertAppliedFor(h) ==
    \E w \in Wallets : \E i \in Attempts(w) :
        /\ sendOutcome[w][i] = NoErr
        /\ InsertDone(w, i)
        /\ insertOutcome[w][i]
        /\ \E k \in JobsFor(w, i) : enqueued[w][k].TxHash = h

\* A job is sent only when the insert call of its record has returned.
JobAfterInsertCall ==
    \A w \in Wallets : \A i \in Attempts(w) : JobsFor(w, i) # {} => InsertDone(w, i)

\* C34 as stated: insert before update.  The terminal status update of a
\* submitted transfer is applied to the store only after the pending insert
\* of its record has been applied: no update finds its record missing.
C34_InsertBeforeUpdate ==
    [][\A h \in AllHashes : UpdateApplied(h) =>
            /\ EpisodeRowsOf(h) # {}
            /\ \A r \in EpisodeRowsOf(h) : r.Status = "pending"]_vars

\* C34, amended: a job is sent only after the insert call of its record has
\* returned, so an update is applied only after that insert was answered;
\* it finds the pending record when the store applied the insert, and no
\* record when the store rejected it.
C34_UpdateAfterInsertCall ==
    /\ []JobAfterInsertCall
    /\ [][\A h \in AllHashes : UpdateApplied(h) =>
            /\ h \in EnqueuedHashes
            /\ InsertAppliedFor(h) <=> EpisodeRowsOf(h) # {}
            /\ \A r \in EpisodeRowsOf(h) : r.Status = "pending"]_vars

\* An update was applied to a record whose insert was applied, and another
\* update found no record because the store had rejected the insert.
C34_Witness ==
    \E h1, h2 \in AllHashes :
        /\ jobEnd[h1] = "applied" /\ InsertAppliedFor(h1)
        /\ \E r \in EpisodeRowsOf(h1) : r.Status = "success"
        /\ jobEnd[h2] = "applied" /\ ~InsertAppliedFor(h2) /\ EpisodeRowsOf(h2) = {}

(***************************************************************************)
(* Episodes side by side                                                   *)
(***************************************************************************)
\* The submission loop of wallet w in call e has started / has completed.
LoopStarted(e, w) == episodes[e].loops[w].pc # "prepare"
LoopCompleted(e, w) == episodes[e].loops[w].pc = "done"

\* C35: the submission phases of the episodes of a loop-mode run do not
\* overlap: a per-account submission loop of episode n+1 has started only
\* when every per-account submission loop of episode n has completed.
C35_NoSubmissionOverlap ==
    \A e \in Episodes : \A f \in Episodes :
        (e < f /\ \E w \in Wallets : LoopStarted(f, w))
            => \A w \in Wallets : LoopCompleted(e, w)

\* The requests of wallet w that call e has numbered.
NumberedBy(e, w) ==
    IF LoopStarted(e, w)
    THEN { NonceOfRequest(episodes[e].loops[w].start, i) : i \in 0..(txPerWallet - 1) }
    ELSE {}

\* C36: across the episodes of a loop-mode run on the same accounts, no
\* sequence number is given to two requests of one account, the endpoint
\* reporting for an account the number of its transfers it has accepted.
C36_NoncesNeverReused ==
    \A w \in Wallets : \A e \in Episodes : \A f \in Episodes :
        e # f => NumberedBy(e, w) \cap NumberedBy(f, w) = {}

\* The confirmations in progress in the pool of call e.
WaitingIn(e) == Cardinality({k \in Workers : episodes[e].workers[k].pc = "wait"})

RECURSIVE WaitingUpTo(_)
WaitingUpTo(e) == IF e = 0 THEN 0 ELSE WaitingIn(e) + WaitingUpTo(e - 1)

\* C37: at every point of a loop-mode run the confirmations in progress,
\* summed over the pools of all episodes, are at most the worker count K.
C37_ProcessWideBound == WaitingUpTo(Len(episodes)) <= ReceiptWorkers

(***************************************************************************)
(* Single mode: the exit of the process                                    *)
(***************************************************************************)
\* Every job that call e has enqueued has been processed.
AllProcessed(e) ==
    /\ episodes[e].queue = 0
    /\ \A k \in Workers : episodes[e].workers[k].pc # "wait"

\* C38: in single mode, with at least one worker and working connections,
\* when the process exits after its 60-second wait every enqueued job has
\* been processed to a terminal status (no record whose job was enqueued is
\* still pending), whatever the ratio of jobs to workers.
C38_NothingPendingAtExit ==
    mpc = "exited" => \A e \in Episodes : AllProcessed(e)

(***************************************************************************)
(* The per-account count N, zero included                                  *)
(***************************************************************************)
\* The goroutine of wallet w is past its submission loop.
PastLoop(w) == wpc[w] = "loop" /\ txIdx[w] > Len(txRequests[w])

\* C39: for every per-account count N >= 0, N = 0 included, a submission
\* loop whose prepare_batch succeeded runs to completion without faulting
\* and signals its completion (so the queue is closed and the summary
\* emitted): no goroutine that is past its loop has faulted there.
C39_LoopRunsToCompletion ==
    \A w \in Wallets : (PrepareSucceeded(w) /\ PastLoop(w)) => ~panicked

====
